---- MODULE Spec2Model ----
(***************************************************************************)
(* Model of the patina morphospace engine of patina_weathering_mcp.py:     *)
(* the coordinate space, the catalogs, nearest-neighbour classification,   *)
(* two-point interpolation, oscillation sequencing and the tool            *)
(* operations built on them.                                               *)
(*                                                                         *)
(* Numbers.  The source computes in binary floating point and reports      *)
(* every coordinate, phase and distance with round(v, 4).  The model       *)
(* carries those quantities as integers in units of 1/Scale = 0.0001, the  *)
(* reporting precision: 0.30 is 3000, phase 0.5 is 5000.  A product of two *)
(* scaled quantities is brought back to the unit by RoundDiv.  Distances   *)
(* are compared through their squares, which is exact; the reported        *)
(* distance is the integer square root of the square.                      *)
(***************************************************************************)
EXTENDS Integers, Sequences, FiniteSets, TLC

VARIABLES
    catalogs, \* the module-level catalog dicts as they are now
    op,       \* name of the operation the server ran last ("" when idle)
    args,     \* the arguments it was called with
    result,   \* the structured result it returned
    earlier   \* history: a call made before, with what it returned

vars == <<catalogs, op, args, result, earlier>>

----------------------------------------------------------------------------
(* Fixed-point arithmetic *)

Scale == 10000

Half == Scale \div 2

Abs(x) == IF x < 0 THEN -x ELSE x

\* n / d rounded to the nearest integer (d > 0), halves away from floor
RoundDiv(n, d) == (2 * n + d) \div (2 * d)

\* largest r in lo..hi with r * r <= n, by bisection
RECURSIVE ISqrtIn(_, _, _)
ISqrtIn(n, lo, hi) ==
    IF lo >= hi THEN lo
    ELSE LET mid == (lo + hi + 1) \div 2
         IN  IF mid * mid <= n THEN ISqrtIn(n, mid, hi)
                               ELSE ISqrtIn(n, lo, mid - 1)

\* math.sqrt of a sum of squares in Scale^2 units: the nearest integer to
\* the root, in Scale units (46340 is the largest root of a machine integer)
Sqrt(n) ==
    LET r == ISqrtIn(n, 0, 46340)
    IN  IF r < 46340 /\ n - r * r > r THEN r + 1 ELSE r

----------------------------------------------------------------------------
(* Coordinate space and catalogs (module-level constants of the source).   *)
(* A Python dict iterates in insertion order: each catalog is the record   *)
(* of its entries together with the sequence of its keys in source order.  *)

PATINA_PARAMETER_NAMES ==
    <<"exposure_duration", "agent_intensity", "material_resistance",
      "intervention_state", "aesthetic_character">>

\* list(PATINA_CANONICAL_STATES.keys())
CanonicalIds ==
    <<"fresh_pristine", "gentle_patina", "noble_verdigris", "deep_rust",
      "stone_erosion", "paper_foxing", "cracked_glaze", "total_ruin">>

LoadedCanonicalStates ==
    [ fresh_pristine |->
          [exposure_duration |-> 0,
           agent_intensity |-> 0,
           material_resistance |-> 5000,
           intervention_state |-> 0,
           aesthetic_character |-> 5000],
      gentle_patina |->
          [exposure_duration |-> 3000,
           agent_intensity |-> 2000,
           material_resistance |-> 6000,
           intervention_state |-> 500,
           aesthetic_character |-> 8500],
      noble_verdigris |->
          [exposure_duration |-> 6000,
           agent_intensity |-> 4500,
           material_resistance |-> 7500,
           intervention_state |-> 1000,
           aesthetic_character |-> 9500],
      deep_rust |->
          [exposure_duration |-> 5500,
           agent_intensity |-> 7000,
           material_resistance |-> 4000,
           intervention_state |-> 500,
           aesthetic_character |-> 5500],
      stone_erosion |->
          [exposure_duration |-> 7000,
           agent_intensity |-> 5500,
           material_resistance |-> 6500,
           intervention_state |-> 1500,
           aesthetic_character |-> 7500],
      paper_foxing |->
          [exposure_duration |-> 4500,
           agent_intensity |-> 3500,
           material_resistance |-> 1500,
           intervention_state |-> 2000,
           aesthetic_character |-> 6000],
      cracked_glaze |->
          [exposure_duration |-> 5000,
           agent_intensity |-> 4000,
           material_resistance |-> 5500,
           intervention_state |-> 1000,
           aesthetic_character |-> 8000],
      total_ruin |->
          [exposure_duration |-> 9500,
           agent_intensity |-> 9000,
           material_resistance |-> 3000,
           intervention_state |-> 0,
           aesthetic_character |-> 4000] ]

\* list(PATINA_VISUAL_TYPES.keys())
VisualTypeIds ==
    <<"pristine_surface", "warm_aged", "oxidation_bloom", "erosion_sculpted",
      "fracture_network", "archaeological_layer">>

LoadedVisualTypes ==
    [ pristine_surface |->
          [center |->
             [exposure_duration |-> 500,
              agent_intensity |-> 500,
              material_resistance |-> 5000,
              intervention_state |-> 500,
              aesthetic_character |-> 5000],
           keywords |->
             <<"unmarked factory-fresh surface with original tool marks visible",
               "uniform material colour with no environmental alteration",
               "sharp machined edges and crisp geometric arrises",
               "consistent reflectance across all surface orientations",
               "material grain or texture as manufactured without overlay">>,
           optical |->
              [finish |-> "original_manufactured",
               scatter |-> "uniform_material",
               transparency |-> "as_made"],
           color_associations |->
             <<"clean whites",
               "bright metallics",
               "saturated original pigment",
               "uniform substrate colour">>],
      warm_aged |->
          [center |->
             [exposure_duration |-> 3000,
              agent_intensity |-> 2000,
              material_resistance |-> 6000,
              intervention_state |-> 500,
              aesthetic_character |-> 8500],
           keywords |->
             <<"gentle honey-toned warmth from UV-mellowed surface",
               "soft wear at high-contact points revealing substrate warmth",
               "time-enriched surface depth from accumulated micro-interactions",
               "wabi-sabi imperfection enhancing material character and presence",
               "subtle tonal gradation from sheltered-to-exposed transition zones">>,
           optical |->
              [finish |-> "mellowed_satin",
               scatter |-> "soft_diffuse",
               transparency |-> "surface_depth"],
           color_associations |->
             <<"honey amber",
               "warm ivory",
               "burnished gold",
               "mellowed cream",
               "antique white">>],
      oxidation_bloom |->
          [center |->
             [exposure_duration |-> 5500,
              agent_intensity |-> 5500,
              material_resistance |-> 5500,
              intervention_state |-> 800,
              aesthetic_character |-> 7500],
           keywords |->
             <<"chemical transformation colour visible as surface bloom",
               "verdigris green or rust orange oxide layer over base metal",
               "mottled transition zone where old and new surface coexist",
               "drip-streak staining below oxidation source tracking water path",
               "stable protective patina crust with crystalline micro-texture">>,
           optical |->
              [finish |-> "oxide_matte",
               scatter |-> "crystalline_micro",
               transparency |-> "opaque_crust"],
           color_associations |->
             <<"verdigris green",
               "rust orange-brown",
               "tarnish purple-black",
               "oxide red-black",
               "patina blue-green">>],
      erosion_sculpted |->
          [center |->
             [exposure_duration |-> 7000,
              agent_intensity |-> 6000,
              material_resistance |-> 6000,
              intervention_state |-> 1200,
              aesthetic_character |-> 7000],
           keywords |->
             <<"material subtracted by environmental forces revealing inner structure",
               "rounded edges and dissolved detail softening original geometry",
               "differential erosion where hard and soft zones meet creating relief",
               "honeycomb tafoni cavities carved by salt crystallization cycles",
               "biological colonization establishing in erosion-prepared niches">>,
           optical |->
              [finish |-> "rough_textured",
               scatter |-> "deep_shadow_cavity",
               transparency |-> "opaque_solid"],
           color_associations |->
             <<"weathered grey",
               "lichen orange",
               "moss green",
               "exposed substrate pink-buff",
               "desert varnish brown-black">>],
      fracture_network |->
          [center |->
             [exposure_duration |-> 5000,
              agent_intensity |-> 4500,
              material_resistance |-> 4500,
              intervention_state |-> 1000,
              aesthetic_character |-> 7500],
           keywords |->
             <<"craquelure network dividing surface into irregular polygonal cells",
               "stained crack lines recording moisture penetration history",
               "delamination edge where coating lifts from substrate in curved flakes",
               "conchoidal chip scars exposing fresh substrate colour beneath",
               "alligator-pattern deep cracking from cyclic stress accumulation">>,
           optical |->
              [finish |-> "cracked_gloss",
               scatter |-> "linear_shadow_network",
               transparency |-> "layered_partial"],
           color_associations |->
             <<"craze-stained amber",
               "chip-white substrate",
               "dark crack-line web",
               "peeling curl shadow",
               "glaze pool variation">>],
      archaeological_layer |->
          [center |->
             [exposure_duration |-> 9000,
              agent_intensity |-> 8000,
              material_resistance |-> 3500,
              intervention_state |-> 500,
              aesthetic_character |-> 4500],
           keywords |->
             <<"multiple temporal states visible simultaneously in cross-section",
               "fragmentary remains with substrate weathered through to core",
               "paint ghosts and stain shadows recording vanished surface layers",
               "advanced biological integration - material becoming landscape",
               "structural collapse geometry revealing internal construction">>,
           optical |->
              [finish |-> "friable_rough",
               scatter |-> "deep_multi_layer",
               transparency |-> "fragmentary_void"],
           color_associations |->
             <<"earth tones",
               "ash grey",
               "bone white",
               "charcoal black",
               "mineral stain ochre">>] ]

\* list(PATINA_VISUAL_VOCABULARY.keys())
CategoryIds ==
    <<"surface_texture", "color_transformation", "structural_integrity",
      "biological_colonization", "light_interaction", "temporal_evidence">>

LoadedVisualVocabulary ==
    [ surface_texture |->
          <<"pristine smooth surface with original manufactured finish",
            "slight softening of edges from initial environmental contact",
            "developing surface irregularity with micro-texture formation",
            "established rough texture with tactile grain and character",
            "deep surface relief with cavities and raised formations",
            "friable crumbling surface losing structural coherence",
            "granular disaggregation - surface dissolving grain by grain",
            "total surface loss exposing weathered substrate core">>,
      color_transformation |->
          <<"original material colour unaltered by environment",
            "slight warmth from initial UV mellowing",
            "noticeable colour shift - tarnish warmth or bleaching cool",
            "developed oxide/patina colour overlaying original",
            "dominant new colour from chemical transformation products",
            "mottled patchwork of multiple weathering colour zones",
            "deep complex colour from layered weathering products",
            "fully transformed - no original colour remaining">>,
      structural_integrity |->
          <<"perfect structural condition - no cracks or deformation",
            "hairline surface cracks not affecting structure",
            "developed crack network with minor delamination beginning",
            "active cracking with measurable displacement at joints",
            "significant delamination - sections lifting from substrate",
            "structural weakness - load-bearing capacity compromised",
            "partial collapse - sections lost with remainder unstable",
            "fragmentary remains - structural system no longer functions">>,
      biological_colonization |->
          <<"sterile surface - no biological growth present",
            "initial algal greening on damp shaded areas",
            "scattered lichen pioneer colonies establishing",
            "developed lichen communities with multiple species",
            "moss cushions and higher plant colonization in crevices",
            "significant vegetation cover obscuring substrate",
            "dense biological mat - surface largely hidden",
            "full ecological integration - material becoming habitat">>,
      light_interaction |->
          <<"original reflectance - specular or diffuse as manufactured",
            "slight gloss reduction from surface micro-roughening",
            "matte surface where weathering products scatter light",
            "complex scatter from mixed rough and smooth zones",
            "deep shadow in erosion cavities and crack networks",
            "subsurface glow through translucent patina layers",
            "iridescent interference colours from thin oxide films",
            "light-absorbing friable surface with minimal reflectance">>,
      temporal_evidence |->
          <<"no visible time markers - could have been made yesterday",
            "subtle signs of age - gentle wear at contact points",
            "clear evidence of years of exposure and use",
            "decades of accumulated environmental interaction visible",
            "multi-generational time depth with repair evidence",
            "century-scale weathering with multiple intervention layers",
            "deep archaeological time - centuries of exposure",
            "geological time markers - millennia of environmental action">> ]

\* list(PATINA_RHYTHMIC_PRESETS.keys())
PresetIds ==
    <<"aging_cycle", "restoration_pendulum", "oxidation_bloom",
      "erosion_pulse", "entropy_wave">>

LoadedRhythmicPresets ==
    [ aging_cycle |->
          [period |-> 16, state_a |-> "fresh_pristine",
           state_b |-> "deep_rust", pattern |-> "triangular"],
      restoration_pendulum |->
          [period |-> 20, state_a |-> "total_ruin",
           state_b |-> "gentle_patina", pattern |-> "sinusoidal"],
      oxidation_bloom |->
          [period |-> 24, state_a |-> "fresh_pristine",
           state_b |-> "noble_verdigris", pattern |-> "sinusoidal"],
      erosion_pulse |->
          [period |-> 18, state_a |-> "stone_erosion",
           state_b |-> "gentle_patina", pattern |-> "sinusoidal"],
      entropy_wave |->
          [period |-> 30, state_a |-> "gentle_patina",
           state_b |-> "total_ruin", pattern |-> "sinusoidal"] ]

\* list(PATINA_ATTRACTOR_PRESETS.keys())
AttractorIds ==
    <<"period_30", "period_29", "period_19", "period_28", "period_60",
      "bifurcation_edge", "organic_complexity">>

\* basin_size 0 stands for the None of the curated entries
LoadedAttractorPresets ==
    [ period_30 |->
          [name |-> "Period 30 - Universal Sync",
           basin_size |-> 1160, classification |-> "lcm_sync",
           state |->
             [exposure_duration |-> 4000,
              agent_intensity |-> 3000,
              material_resistance |-> 5500,
              intervention_state |-> 1500,
              aesthetic_character |-> 7500]],
      period_29 |->
          [name |-> "Period 29 - Emergent Resonance",
           basin_size |-> 840, classification |-> "lcm_sync",
           state |->
             [exposure_duration |-> 5500,
              agent_intensity |-> 4000,
              material_resistance |-> 6000,
              intervention_state |-> 1000,
              aesthetic_character |-> 7000]],
      period_19 |->
          [name |-> "Period 19 - Gap Flow",
           basin_size |-> 740, classification |-> "novel",
           state |->
             [exposure_duration |-> 4800,
              agent_intensity |-> 4200,
              material_resistance |-> 6500,
              intervention_state |-> 800,
              aesthetic_character |-> 8200]],
      period_28 |->
          [name |-> "Period 28 - Composite Beat",
           basin_size |-> 240, classification |-> "novel",
           state |->
             [exposure_duration |-> 5200,
              agent_intensity |-> 4800,
              material_resistance |-> 5000,
              intervention_state |-> 1200,
              aesthetic_character |-> 7200]],
      period_60 |->
          [name |-> "Period 60 - Harmonic Hub",
           basin_size |-> 400, classification |-> "harmonic",
           state |->
             [exposure_duration |-> 5000,
              agent_intensity |-> 4500,
              material_resistance |-> 5200,
              intervention_state |-> 1000,
              aesthetic_character |-> 6500]],
      bifurcation_edge |->
          [name |-> "Bifurcation Edge - Patina Threshold",
           basin_size |-> 0, classification |-> "curated",
           state |->
             [exposure_duration |-> 5200,
              agent_intensity |-> 5000,
              material_resistance |-> 4800,
              intervention_state |-> 500,
              aesthetic_character |-> 6500]],
      organic_complexity |->
          [name |-> "Organic Complexity - Wabi-Sabi Perfection",
           basin_size |-> 0, classification |-> "curated",
           state |->
             [exposure_duration |-> 3500,
              agent_intensity |-> 2000,
              material_resistance |-> 7000,
              intervention_state |-> 1000,
              aesthetic_character |-> 9500]] ]

----------------------------------------------------------------------------
(* The catalogs are module-level dicts: every operation reads them where   *)
(* they are, at the time of the call.                                      *)

\* The five catalogs as the module defines them when it is loaded
LoadedCatalogs ==
    [PATINA_CANONICAL_STATES  |-> LoadedCanonicalStates,
     PATINA_VISUAL_TYPES      |-> LoadedVisualTypes,
     PATINA_VISUAL_VOCABULARY |-> LoadedVisualVocabulary,
     PATINA_RHYTHMIC_PRESETS  |-> LoadedRhythmicPresets,
     PATINA_ATTRACTOR_PRESETS |-> LoadedAttractorPresets]

PATINA_CANONICAL_STATES == catalogs.PATINA_CANONICAL_STATES

PATINA_VISUAL_TYPES == catalogs.PATINA_VISUAL_TYPES

PATINA_VISUAL_VOCABULARY == catalogs.PATINA_VISUAL_VOCABULARY

PATINA_RHYTHMIC_PRESETS == catalogs.PATINA_RHYTHMIC_PRESETS

PATINA_ATTRACTOR_PRESETS == catalogs.PATINA_ATTRACTOR_PRESETS

----------------------------------------------------------------------------
(* Conservation taxonomy: materials, weathering agents and condition     *)
(* grades, with the fields the tool operations read.                       *)

MaterialIds ==
    <<"ferrous_metal",
      "copper_alloy",
      "silver",
      "limestone",
      "sandstone",
      "wood",
      "ceramic_glaze",
      "paper_textile",
      "paint_coating",
      "concrete",
      "glass">>

MATERIAL_CATEGORIES == [
    ferrous_metal |-> [
        name |->
            "Ferrous Metals",
        characteristic_patina |->
            "Fe2O3 rust - orange-brown to deep red-black",
        color_progression |->
            <<"bare metallic grey",
              "orange flash rust",
              "red-brown oxide",
              "dark brown-black scale",
              "flaking laminar rust">>,
        time_scale |->
            "weeks to decades",
        visual_markers |->
            <<"weeping rust stains below fastener points",
              "laminar scale lifting from substrate in curved plates",
              "pinpoint pitting beneath intact oxide layer",
              "orange-brown tide marks at moisture boundaries",
              "red-black stable magnetite core under flaking hematite">>
    ],
    copper_alloy |-> [
        name |->
            "Copper & Bronze",
        characteristic_patina |->
            "Cu2(OH)2CO3 verdigris - green to blue-green",
        color_progression |->
            <<"bright salmon-pink",
              "dull brown cuprite",
              "mottled brown-green",
              "stable green verdigris",
              "blue-green patina with streaking">>,
        time_scale |->
            "months to centuries",
        visual_markers |->
            <<"bright green drip streaks below exposed copper edges",
              "mottled brown-to-green transition zone at sheltered boundary",
              "stable blue-green crust with crystalline surface texture",
              "salmon-pink bright metal visible at rubbed high points",
              "dark brown cuprite underlayer showing through verdigris chips">>
    ],
    silver |-> [
        name |->
            "Silver",
        characteristic_patina |->
            "Ag2S tarnish - gold to purple-black",
        color_progression |->
            <<"bright mirror white",
              "pale gold warmth",
              "amber-bronze",
              "deep purple-blue iridescence",
              "matte charcoal-black">>,
        time_scale |->
            "hours to years",
        visual_markers |->
            <<"golden warmth on protected recessed surfaces",
              "iridescent purple-blue in deepest relief areas",
              "bright white rub marks on high-contact edges and peaks",
              "progressive darkening gradient from exposed to sheltered",
              "matte black sulfide in crevices contrasting polished highlights">>
    ],
    limestone |-> [
        name |->
            "Limestone & Marble",
        characteristic_patina |->
            "rounded edges, biological colonization, black gypsum crust",
        color_progression |->
            <<"clean cream-white",
              "light grey soiling",
              "black gypsum crust on sheltered faces",
              "orange lichen colonization",
              "deep grey-green biological cover">>,
        time_scale |->
            "years to centuries",
        visual_markers |->
            <<"sharp carved edges rounded to soft pillowed forms",
              "black gypsum crust thick on sheltered undersides",
              "clean white stone on rain-washed exposed faces",
              "orange and grey circular lichen colonies on stable surfaces",
              "sugaring surface where individual calcite grains detach">>
    ],
    sandstone |-> [
        name |->
            "Sandstone",
        characteristic_patina |->
            "rounded forms, cavernous hollows, desert varnish",
        color_progression |->
            <<"fresh cut colour (pink/buff/red)",
              "surface darkening from iron mobilization",
              "differential erosion revealing bedding",
              "honeycomb weathering caverns",
              "desert varnish dark brown-black">>,
        time_scale |->
            "decades to millennia",
        visual_markers |->
            <<"honeycomb tafoni cavities eroded by salt crystallization",
              "case-hardened surface shell over soft eroded interior",
              "differential erosion picking out cross-bedding laminae",
              "dark desert varnish manganese-oxide coating on exposed faces",
              "grain-by-grain surface disaggregation leaving sandy residue">>
    ],
    wood |-> [
        name |->
            "Wood",
        characteristic_patina |->
            "silver-grey photodegraded surface, checking, biological colonization",
        color_progression |->
            <<"fresh-cut heartwood colour",
              "UV darkening to golden-brown",
              "grey surface fibre degradation",
              "silver-grey stable weathered",
              "deep grey-black with moss/lichen">>,
        time_scale |->
            "months to decades",
        visual_markers |->
            <<"end-grain checking radiating from pith center",
              "surface fibre lifting creating rough tactile grain",
              "silver-grey colour uniform across UV-exposed faces",
              "dark staining below iron hardware (tannin reaction)",
              "moss and lichen colonizing shaded damp surfaces">>
    ],
    ceramic_glaze |-> [
        name |->
            "Ceramics & Glazes",
        characteristic_patina |->
            "craquelure network, glaze chips, stained craze lines",
        color_progression |->
            <<"pristine glossy surface",
              "fine craze network developing",
              "stained craze lines (tea/dirt penetration)",
              "glaze chips revealing bisque body",
              "extensive loss with stabilized fragments">>,
        time_scale |->
            "years to centuries",
        visual_markers |->
            <<"fine craquelure network with stained intersections",
              "conchoidal glaze chips exposing pale bisque substrate",
              "crazing pattern denser at glaze pooling and thick spots",
              "salt efflorescence white crystals on unglazed terracotta",
              "iron spot blooming through reduction-fired glaze">>
    ],
    paper_textile |-> [
        name |->
            "Paper & Textiles",
        characteristic_patina |->
            "foxing spots, yellowing, tide marks, fibre degradation",
        color_progression |->
            <<"bright white/original colour",
              "warm ivory yellowing",
              "brown foxing spots scattered",
              "overall tan-brown tone",
              "darkened brittle fragments">>,
        time_scale |->
            "years to centuries",
        visual_markers |->
            <<"scattered brown foxing spots of varying diameter",
              "tide mark brown ring where moisture boundary dried",
              "overall warm yellowing from acid migration in wood-pulp",
              "fading pattern revealing UV exposure direction",
              "brittle edge crumbling where fibre chains have broken">>
    ],
    paint_coating |-> [
        name |->
            "Paint & Coatings",
        characteristic_patina |->
            "chalking, alligatoring, peeling revealing substrate layers",
        color_progression |->
            <<"fresh glossy saturated colour",
              "gloss loss and chalking",
              "fine cracking (checking)",
              "alligator pattern deep cracking",
              "curl-edged peeling revealing layers beneath">>,
        time_scale |->
            "years to decades",
        visual_markers |->
            <<"chalking powder surface that marks on contact",
              "alligator-pattern deep cracks dividing surface into cells",
              "curl-edged paint flakes lifting from substrate",
              "ghost layer - faded remnant of stripped previous coat",
              "blister domes where moisture trapped under film">>
    ],
    concrete |-> [
        name |->
            "Concrete",
        characteristic_patina |->
            "spalling over rebar, efflorescence, rain-streak staining",
        color_progression |->
            <<"fresh grey with formwork texture",
              "darkening from moisture absorption",
              "white efflorescence salt bloom",
              "rust staining from corroding rebar",
              "spalling craters with exposed reinforcement">>,
        time_scale |->
            "decades to century",
        visual_markers |->
            <<"white efflorescence salt blooms at cracks and joints",
              "rust-brown stain trails below cracks (rebar corrosion indicator)",
              "delamination spalls exposing corroded reinforcing bar",
              "carbonation front visible as pH boundary in cross-section",
              "rain-streak differential soiling creating vertical stripes">>
    ],
    glass |-> [
        name |->
            "Glass",
        characteristic_patina |->
            "iridescent surface layers from ion exchange, weeping, pitting",
        color_progression |->
            <<"clear transparent",
              "slight haze from surface leaching",
              "milky opalescence",
              "iridescent rainbow interference films",
              "opaque white devitrified crust">>,
        time_scale |->
            "decades to millennia (archaeological)",
        visual_markers |->
            <<"iridescent rainbow film from thin-layer interference",
              "surface pitting with concentric ring pattern",
              "weeping droplets from alkali leaching in humid conditions",
              "opaque white devitrified layer on buried archaeological glass",
              "crizzling fine internal crack network from unstable composition">>
    ]
]

AgentIds ==
    <<"water", "uv_solar", "chemical", "biological", "mechanical", "thermal">>

WEATHERING_AGENTS == [
    water |-> [
        name |->
            "Water Exposure",
        visual_indicators |->
            <<"tide marks",
              "efflorescence",
              "spalling",
              "rounding",
              "drip staining">>
    ],
    uv_solar |-> [
        name |->
            "UV / Solar Radiation",
        visual_indicators |->
            <<"fading pattern",
              "chalking",
              "colour shift",
              "surface fibre degradation",
              "gloss loss">>
    ],
    chemical |-> [
        name |->
            "Chemical Attack",
        visual_indicators |->
            <<"black gypsum crust",
              "green copper staining",
              "rust bleeding",
              "etching",
              "efflorescence">>
    ],
    biological |-> [
        name |->
            "Biological Colonization",
        visual_indicators |->
            <<"circular lichen colonies",
              "moss cushions",
              "green algae staining",
              "white fungal hyphae",
              "bore holes">>
    ],
    mechanical |-> [
        name |->
            "Mechanical Wear",
        visual_indicators |->
            <<"polished wear paths",
              "chipped edges",
              "rounded arrises",
              "smooth concavities",
              "lost detail">>
    ],
    thermal |-> [
        name |->
            "Thermal Cycling",
        visual_indicators |->
            <<"surface parallel cracks",
              "exfoliation shells",
              "fire spalling",
              "calcination whitening",
              "curvature from differential expansion">>
    ]
]

GradeIds ==
    <<"pristine",
      "light_weathering",
      "moderate_weathering",
      "advanced_decay",
      "severe_deterioration",
      "ruin">>

CONDITION_GRADES == [
    pristine |-> [
        grade |-> 1,
        description |->
            "As-made condition, no visible weathering",
        structural |->
            "fully intact",
        surface |->
            "original finish unaltered",
        intervention_needed |->
            "none - preventive conservation only"
    ],
    light_weathering |-> [
        grade |-> 2,
        description |->
            "Early surface changes, character-enhancing",
        structural |->
            "fully sound",
        surface |->
            "minor colour change, initial biological colonization",
        intervention_needed |->
            "monitoring only"
    ],
    moderate_weathering |-> [
        grade |-> 3,
        description |->
            "Established patina, stable surface changes",
        structural |->
            "sound with minor surface loss",
        surface |->
            "developed patina, established biological growth",
        intervention_needed |->
            "selective cleaning, biocide if needed"
    ],
    advanced_decay |-> [
        grade |-> 4,
        description |->
            "Active deterioration requiring intervention",
        structural |->
            "local weakness, delamination beginning",
        surface |->
            "significant loss of original surface",
        intervention_needed |->
            "consolidation, stabilization, repair"
    ],
    severe_deterioration |-> [
        grade |-> 5,
        description |->
            "Major structural compromise",
        structural |->
            "critical weakness, risk of collapse/fragmentation",
        surface |->
            "extensive loss, substrate exposed",
        intervention_needed |->
            "emergency stabilization, reconstruction"
    ],
    ruin |-> [
        grade |-> 6,
        description |->
            "Fragmentary remains, archaeological condition",
        structural |->
            "partial or total loss of structural integrity",
        surface |->
            "all original surface gone, substrate weathered through",
        intervention_needed |->
            "documentation, managed decay or reconstruction"
    ]
]

----------------------------------------------------------------------------
(* Helper functions *)

ParamSet == {PATINA_PARAMETER_NAMES[i] : i \in 1..Len(PATINA_PARAMETER_NAMES)}

RECURSIVE SumSquares(_, _, _)
SumSquares(a, b, i) ==
    IF i > Len(PATINA_PARAMETER_NAMES) THEN 0
    ELSE LET p == PATINA_PARAMETER_NAMES[i]
         IN  (a[p] - b[p]) * (a[p] - b[p]) + SumSquares(a, b, i + 1)

\* sum((a[p] - b[p]) ** 2 for p in PATINA_PARAMETER_NAMES), in Scale^2 units
SquaredDistance(a, b) == SumSquares(a, b, 1)

_patina_euclidean_distance(a, b) == Sqrt(SquaredDistance(a, b))

\* float("inf"): above every sum of squares the model can form
Inf == 2147483647

\* best_id = None
None == "None"

\* `d <= best_dist`: a later entry at the same distance replaces the best
CloserThan_NonStrict(d, best_dist) == d <= best_dist

\* `d > best_dist`: the comparison the wrong way round
CloserThan_Reversed(d, best_dist) == d > best_dist

\* The comparison `d < best_dist` of the two nearest-neighbour scans.  The
\* rounded root would merge distinct distances, so the scan compares the
\* radicands: the square root is strictly increasing.
CloserThan(d, best_dist) == d < best_dist

\* One pass of `for sid, coords in catalog.items()`, from position i on,
\* with the running (best_id, best_dist); centers[id] is the entry's point.
RECURSIVE NearestScan(_, _, _, _, _)
NearestScan(state, ids, centers, i, best) ==
    IF i > Len(ids) THEN best
    ELSE LET d == SquaredDistance(state, centers[ids[i]])
         IN  IF CloserThan(d, best[2])
             THEN NearestScan(state, ids, centers, i + 1, <<ids[i], d>>)
             ELSE NearestScan(state, ids, centers, i + 1, best)

\* coords of each canonical state
CanonicalCenters == PATINA_CANONICAL_STATES

\* vdata["center"] of each visual type
VisualCenters ==
    [vid \in {VisualTypeIds[i] : i \in 1..Len(VisualTypeIds)} |->
        PATINA_VISUAL_TYPES[vid].center]

\* Returns <<state_id, distance>>
_patina_nearest_canonical(state) ==
    LET best == NearestScan(state, CanonicalIds, CanonicalCenters, 1,
                            <<None, Inf>>)
    IN  <<best[1], IF best[2] = Inf THEN Inf ELSE Sqrt(best[2])>>

\* Returns <<type_id, distance>>
_patina_nearest_visual_type(state) ==
    LET best == NearestScan(state, VisualTypeIds, VisualCenters, 1,
                            <<None, Inf>>)
    IN  <<best[1], IF best[2] = Inf THEN Inf ELSE Sqrt(best[2])>>

\* math.pi in Scale units
Pi == 31416

\* math.cos(math.pi * t) for a phase t in 0..Scale, in Scale units: the
\* Taylor polynomial of the cosine up to x^10 on [0, pi/2], and the
\* reflection cos(pi - x) = -cos(x) above it.  Exact at t = 0 and t = Scale.
RECURSIVE CosPi(_)
CosPi(t) ==
    IF t > Half THEN -CosPi(Scale - t)
    ELSE LET x  == RoundDiv(Pi * t, Scale)
             x2 == RoundDiv(x * x, Scale)
             t1 == RoundDiv(x2, 2)
             t2 == RoundDiv(t1 * x2, 12 * Scale)
             t3 == RoundDiv(t2 * x2, 30 * Scale)
             t4 == RoundDiv(t3 * x2, 56 * Scale)
             t5 == RoundDiv(t4 * x2, 90 * Scale)
         IN  Scale - t1 + t2 - t3 + t4 - t5

\* The triangular branch without its falling side
Alpha_TriangularNoFold(t, pattern) ==
    IF pattern = "sinusoidal" THEN RoundDiv(Scale - CosPi(t), 2)
    ELSE IF pattern = "triangular" THEN 2 * t
    ELSE IF pattern = "square" THEN (IF t < Half THEN 0 ELSE Scale)
    ELSE t

\* The triangular branch as a plain linear ramp
Alpha_TriangularLinear(t, pattern) ==
    IF pattern = "sinusoidal" THEN RoundDiv(Scale - CosPi(t), 2)
    ELSE IF pattern = "triangular" THEN t
    ELSE IF pattern = "square" THEN (IF t < Half THEN 0 ELSE Scale)
    ELSE t

\* The triangular branch with a falling side of half the slope
Alpha_TriangularSlowFall(t, pattern) ==
    IF pattern = "sinusoidal" THEN RoundDiv(Scale - CosPi(t), 2)
    ELSE IF pattern = "triangular"
         THEN (IF t <= Half THEN 2 * t ELSE Scale - t)
    ELSE IF pattern = "square" THEN (IF t < Half THEN 0 ELSE Scale)
    ELSE t

\* The sinusoidal weight without its factor 0.5: 1 - cos(pi*t)
Alpha_SinusoidalFullSwing(t, pattern) ==
    IF pattern = "sinusoidal" THEN Scale - CosPi(t)
    ELSE IF pattern = "triangular"
         THEN (IF t <= Half THEN 2 * t ELSE 2 * (Scale - t))
    ELSE IF pattern = "square"
         THEN (IF t < Half THEN 0 ELSE Scale)
    ELSE t

\* Any tag that is not sinusoidal or triangular taken as square
Alpha_UnknownIsSquare(t, pattern) ==
    IF pattern = "sinusoidal" THEN RoundDiv(Scale - CosPi(t), 2)
    ELSE IF pattern = "triangular"
         THEN (IF t <= Half THEN 2 * t ELSE 2 * (Scale - t))
    ELSE (IF t < Half THEN 0 ELSE Scale)

\* The blend weight alpha of _patina_interpolate_states, in Scale units
Alpha(t, pattern) ==
    IF pattern = "sinusoidal" THEN RoundDiv(Scale - CosPi(t), 2)
    ELSE IF pattern = "triangular"
         THEN (IF t <= Half THEN 2 * t ELSE 2 * (Scale - t))
    ELSE IF pattern = "square"
         THEN (IF t < Half THEN 0 ELSE Scale)
    ELSE t

_patina_interpolate_states(state_a, state_b, t, pattern) ==
    LET alpha == Alpha(t, pattern)
    IN  [p \in ParamSet |->
            state_a[p] + RoundDiv(alpha * (state_b[p] - state_a[p]), Scale)]

\* Python round(n / d) for d > 0: to the nearest integer, a half to the even
RoundHalfEven(n, d) ==
    LET q == n \div d
        r == n % d
    IN  IF 2 * r < d THEN q
        ELSE IF 2 * r > d THEN q + 1
        ELSE IF q % 2 = 0 THEN q ELSE q + 1

Max(x, y) == IF x >= y THEN x ELSE y

Min(x, y) == IF x <= y THEN x ELSE y

\* list(dict.fromkeys(items)): first occurrences, in order
RECURSIVE Dedup(_)
Dedup(items) ==
    IF items = <<>> THEN <<>>
    ELSE LET front == Dedup(SubSeq(items, 1, Len(items) - 1))
             last  == items[Len(items)]
         IN  IF \E i \in 1..Len(front) : front[i] = last
             THEN front
             ELSE Append(front, last)

CategorySet == {CategoryIds[i] : i \in 1..Len(CategoryIds)}

\* The scalar v of a vocabulary category, as the fraction num / den of the
\* axis values in Scale units
CategoryValue(category, state) ==
    LET e == state.exposure_duration
        a == state.agent_intensity
        r == state.material_resistance
        i == state.intervention_state
    IN  IF category = "surface_texture" THEN [num |-> e, den |-> Scale]
        ELSE IF category = "color_transformation"
        THEN [num |-> e + a, den |-> 2 * Scale]
        ELSE IF category = "structural_integrity"
        THEN [num |-> a * (2 * Scale - r), den |-> 2 * Scale * Scale]
        ELSE IF category = "biological_colonization"
        THEN [num |-> 6 * e + 4 * a, den |-> 10 * Scale]
        ELSE IF category = "light_interaction"
        THEN [num |-> 5 * e + 3 * a + 2 * (Scale - i), den |-> 10 * Scale]
        ELSE [num |-> e, den |-> Scale]

\* round(v * (len(terms) - 1)) for a table of n phrases
RoundIndex(v, n) == RoundHalfEven(v.num * (n - 1), v.den)

KnownCategories ==
    {"surface_texture", "color_transformation", "structural_integrity",
     "biological_colonization", "light_interaction", "temporal_evidence"}

\* idx = min(idx, len(terms) - 1) only: a negative index is left to address
\* the table from its end, as a Python list does
SelectCategory_NoLowerClamp(category, state) ==
    LET terms == PATINA_VISUAL_VOCABULARY[category]
        n     == Len(terms)
        raw   == IF category \in KnownCategories
                 THEN RoundIndex(CategoryValue(category, state), n)
                 ELSE 0
        idx   == Min(raw, n - 1)
    IN  Dedup(<<terms[Max(0, idx - 1) + 1], terms[(idx % n) + 1], terms[(Min(n - 1, idx + 1) % n) + 1]>>)

\* The three neighbours kept as they are, a repeated phrase included
SelectCategory_NoDedup(category, state) ==
    LET terms == PATINA_VISUAL_VOCABULARY[category]
        n     == Len(terms)
        raw   == IF category \in KnownCategories
                 THEN RoundIndex(CategoryValue(category, state), n)
                 ELSE 0
        idx   == Max(0, Min(raw, n - 1))
    IN  <<terms[Max(0, idx - 1) + 1], terms[idx + 1], terms[Min(n - 1, idx + 1) + 1]>>

\* The body of the loop of _patina_select_vocabulary for one category
SelectCategory(category, state) ==
    LET terms == PATINA_VISUAL_VOCABULARY[category]
        n     == Len(terms)
        raw   == IF category \in KnownCategories
                 THEN RoundIndex(CategoryValue(category, state), n)
                 ELSE 0
        idx   == Max(0, Min(raw, n - 1))
        \* Python indexes from 0, the sequences here from 1
        neighbors == <<terms[Max(0, idx - 1) + 1],
                       terms[idx + 1],
                       terms[Min(n - 1, idx + 1) + 1]>>
    IN  Dedup(neighbors)

\* Every category answered from the table of the first category
_patina_select_vocabulary_FirstTable(state) ==
    [category \in CategorySet |-> SelectCategory(CategoryIds[1], state)]

_patina_select_vocabulary(state) ==
    [category \in CategorySet |-> SelectCategory(category, state)]

----------------------------------------------------------------------------
(* Tool operations.  Each is a function of its arguments alone and returns *)
(* the structure the source serialises with json.dumps.  The "description" *)
(* text of a preset is static prose and is left out of the results.        *)

SeqToSet(s) == {s[i] : i \in 1..Len(s)}

CanonicalSet == SeqToSet(CanonicalIds)

VisualTypeSet == SeqToSet(VisualTypeIds)

PresetSet == SeqToSet(PresetIds)

AttractorSet == SeqToSet(AttractorIds)

\* n / d for a divisor of either sign, to the nearest unit
Quotient(n, d) == IF d > 0 THEN RoundDiv(n, d) ELSE RoundDiv(-n, -d)

\* n // d for a divisor of either sign
FloorDiv(n, d) == IF d > 0 THEN n \div d ELSE (-n) \div (-d)

\* range(1, n + 1)
Range_FromOne(n) == [i \in 1..n |-> i]

\* range(n) as the sequence 0, 1, ..., n-1 (empty when n <= 0)
Range(n) == [i \in 1..n |-> i - 1]

\* The loop body of apply_patina_rhythmic_preset for one step
PresetSample(cfg, step) ==
    LET state_a == PATINA_CANONICAL_STATES[cfg.state_a]
        state_b == PATINA_CANONICAL_STATES[cfg.state_b]
        t       == Quotient(step * Scale, cfg.period)
        state   == _patina_interpolate_states(state_a, state_b, t, cfg.pattern)
        v       == _patina_nearest_visual_type(state)
    IN  [step |-> step,
         phase |-> t,
         state |-> state,
         nearest_visual_type |-> v[1],
         visual_distance |-> v[2]]

\* The error branch listing the keys of the wrong catalog
apply_patina_rhythmic_preset_WrongList(preset_name) ==
    IF preset_name \notin PresetSet
    THEN [error |-> "Unknown preset: " \o preset_name,
          available |-> CanonicalIds]
    ELSE LET cfg      == PATINA_RHYTHMIC_PRESETS[preset_name]
             period   == cfg.period
             sequence == [i \in 1..period |-> PresetSample(cfg, Range(period)[i])]
         IN  [preset |-> preset_name,
              period |-> period,
              pattern |-> cfg.pattern,
              state_a |-> cfg.state_a,
              state_b |-> cfg.state_b,
              sequence |-> sequence,
              total_steps |-> Len(sequence)]

apply_patina_rhythmic_preset(preset_name) ==
    IF preset_name \notin PresetSet
    THEN [error |-> "Unknown preset: " \o preset_name,
          available |-> PresetIds]
    ELSE LET cfg      == PATINA_RHYTHMIC_PRESETS[preset_name]
             period   == cfg.period
             sequence == [i \in 1..period |-> PresetSample(cfg, Range(period)[i])]
         IN  [preset |-> preset_name,
              period |-> period,
              pattern |-> cfg.pattern,
              state_a |-> cfg.state_a,
              state_b |-> cfg.state_b,
              sequence |-> sequence,
              total_steps |-> Len(sequence)]

\* The loop body with t = raw_t, the `% 1.0` forgotten
SequenceSample_NoWrap(state_a, state_b, oscillation_pattern, steps_per_cycle, phase_offset, step) ==
    LET t     == Quotient(step * Scale, steps_per_cycle) + phase_offset
        state == _patina_interpolate_states(state_a, state_b, t,
                                            oscillation_pattern)
        v     == _patina_nearest_visual_type(state)
    IN  [step |-> step,
         cycle |-> FloorDiv(step, steps_per_cycle),
         phase |-> t,
         state |-> state,
         nearest_visual_type |-> v[1],
         visual_distance |-> v[2]]

\* The loop body of generate_patina_rhythmic_sequence for one step.
\* raw_t = step / steps_per_cycle + phase_offset is the exact fraction
\* num / (d * Scale); `% 1.0` is taken of the fraction, and round(t, 4)
\* of what is left, so that a t of 0.99995 or more is reported as 1.0
SequenceSample(state_a, state_b, oscillation_pattern, steps_per_cycle, phase_offset, step) ==
    LET sgn   == IF steps_per_cycle > 0 THEN 1 ELSE -1
        d     == sgn * steps_per_cycle
        num   == sgn * (step * Scale + phase_offset * steps_per_cycle)
        t     == RoundHalfEven(num % (d * Scale), d)
        state == _patina_interpolate_states(state_a, state_b, t,
                                            oscillation_pattern)
        v     == _patina_nearest_visual_type(state)
    IN  [step |-> step,
         cycle |-> FloorDiv(step, steps_per_cycle),
         phase |-> t,
         state |-> state,
         nearest_visual_type |-> v[1],
         visual_distance |-> v[2]]

generate_patina_rhythmic_sequence(state_a_id, state_b_id, oscillation_pattern, num_cycles, steps_per_cycle, phase_offset) ==
    IF state_a_id \notin CanonicalSet
    THEN [error |-> "Unknown: " \o state_a_id, available |-> CanonicalIds]
    ELSE IF state_b_id \notin CanonicalSet
    THEN [error |-> "Unknown: " \o state_b_id, available |-> CanonicalIds]
    ELSE LET state_a     == PATINA_CANONICAL_STATES[state_a_id]
             state_b     == PATINA_CANONICAL_STATES[state_b_id]
             total_steps == num_cycles * steps_per_cycle
             sequence    ==
                 [i \in 1..total_steps |->
                     SequenceSample(state_a, state_b, oscillation_pattern,
                                    steps_per_cycle, phase_offset,
                                    Range(total_steps)[i])]
         IN  [state_a |-> state_a_id,
              state_b |-> state_b_id,
              pattern |-> oscillation_pattern,
              num_cycles |-> num_cycles,
              steps_per_cycle |-> steps_per_cycle,
              phase_offset |-> phase_offset,
              total_steps |-> total_steps,
              sequence |-> sequence]

\* max(diffs, key=lambda p: abs(diffs[p])): the first axis, in axis order,
\* whose absolute difference is the largest
RECURSIVE FirstMaxAxis(_, _, _)
FirstMaxAxis(diffs, i, best) ==
    IF i > Len(PATINA_PARAMETER_NAMES) THEN best
    ELSE LET p == PATINA_PARAMETER_NAMES[i]
         IN  IF Abs(diffs[p]) > Abs(diffs[best])
             THEN FirstMaxAxis(diffs, i + 1, p)
             ELSE FirstMaxAxis(diffs, i + 1, best)

compute_patina_distance(patina_id_1, patina_id_2) ==
    IF patina_id_1 \notin CanonicalSet
    THEN [error |-> "Unknown: " \o patina_id_1, available |-> CanonicalIds]
    ELSE IF patina_id_2 \notin CanonicalSet
    THEN [error |-> "Unknown: " \o patina_id_2, available |-> CanonicalIds]
    ELSE LET a     == PATINA_CANONICAL_STATES[patina_id_1]
             b     == PATINA_CANONICAL_STATES[patina_id_2]
             diffs == [p \in ParamSet |-> b[p] - a[p]]
             dist  == _patina_euclidean_distance(a, b)
             dom   == FirstMaxAxis(diffs, 2, PATINA_PARAMETER_NAMES[1])
         IN  [patina_id_1 |-> patina_id_1,
              patina_id_2 |-> patina_id_2,
              euclidean_distance |-> dist,
              per_parameter_diff |-> diffs,
              abs_per_parameter |-> [p \in ParamSet |-> Abs(diffs[p])],
              max_parameter_diff |-> Abs(diffs[dom]),
              dominant_axis |-> dom]

\* The loop body of compute_patina_trajectory for one step
TrajectoryPoint(a, b, num_steps, i) ==
    LET t     == Quotient(i * Scale, num_steps)
        state == [p \in ParamSet |->
                     a[p] + RoundDiv(t * (b[p] - a[p]), Scale)]
        v     == _patina_nearest_visual_type(state)
        c     == _patina_nearest_canonical(state)
    IN  [step |-> i,
         t |-> t,
         state |-> state,
         nearest_visual_type |-> v[1],
         visual_distance |-> v[2],
         nearest_canonical |-> c[1],
         canonical_distance |-> c[2]]

\* An exception that leaves the tool function: the call returns no result
Raised(exception) == [raised |-> exception]

compute_patina_trajectory(start_patina_id, end_patina_id, num_steps) ==
    IF start_patina_id \notin CanonicalSet
    THEN [error |-> "Unknown: " \o start_patina_id, available |-> CanonicalIds]
    ELSE IF end_patina_id \notin CanonicalSet
    THEN [error |-> "Unknown: " \o end_patina_id, available |-> CanonicalIds]
    ELSE IF num_steps = 0
    THEN Raised("ZeroDivisionError")
    ELSE LET a          == PATINA_CANONICAL_STATES[start_patina_id]
             b          == PATINA_CANONICAL_STATES[end_patina_id]
             total_dist == _patina_euclidean_distance(a, b)
             trajectory ==
                 [k \in 1..(num_steps + 1) |->
                     TrajectoryPoint(a, b, num_steps, Range(num_steps + 1)[k])]
         IN  [start |-> start_patina_id,
              end |-> end_patina_id,
              total_distance |-> total_dist,
              num_steps |-> num_steps,
              trajectory |-> trajectory]

\* An Optional[Dict] argument left at None
NoneDict == [is_none |-> TRUE]

IsNoneDict(d) == DOMAIN d = {"is_none"}

\* The first axis name, in axis order, that the dict lacks ("" when none)
RECURSIVE FirstMissing(_, _)
FirstMissing(d, i) ==
    IF i > Len(PATINA_PARAMETER_NAMES) THEN ""
    ELSE IF PATINA_PARAMETER_NAMES[i] \notin DOMAIN d
         THEN PATINA_PARAMETER_NAMES[i]
         ELSE FirstMissing(d, i + 1)

\* sep.join(items)
RECURSIVE Join(_, _)
Join(items, sep) ==
    IF items = <<>> THEN ""
    ELSE IF Len(items) = 1 THEN items[1]
    ELSE Join(SubSeq(items, 1, Len(items) - 1), sep) \o sep
             \o items[Len(items)]

\* for cat_terms in vocab.values(): all.extend(cat_terms), from category i on
RECURSIVE ExtendAll(_, _, _)
ExtendAll(all, vocab, i) ==
    IF i > Len(CategoryIds) THEN all
    ELSE ExtendAll(all \o vocab[CategoryIds[i]], vocab, i + 1)

\* The catalog's own list: all_keywords = vdata["keywords"]
KeywordList_SameObject(vtype) == [origin |-> <<vtype>>]

\* all_keywords = list(vdata["keywords"]): a list object the call creates.
\* `origin` names the visual type whose catalog list the object is; it is
\* empty for an object of the call's own.
KeywordList(vtype) == [origin |-> <<>>]

\* The catalogs after `for cat_terms in vocab.values():
\* all_keywords.extend(cat_terms)` on the list object `list`
ExtendWrites(cat, list, vocab) ==
    IF list.origin = <<>> THEN cat
    ELSE [cat EXCEPT !.PATINA_VISUAL_TYPES[list.origin[1]].keywords =
                         ExtendAll(@, vocab, 1)]

\* The catalogs after the keyword list of each frame (the one coordinate of
\* composite mode, or each keyframe) was built, from frame i on
RECURSIVE FrameWrites_SameObject(_, _, _)
\* Each frame extends the catalog's own keyword list
FrameWrites_SameObject(cat, frames, i) ==
    IF i > Len(frames) THEN cat
    ELSE FrameWrites_SameObject(
             ExtendWrites(cat,
                          KeywordList_SameObject(frames[i].nearest_visual_type),
                          _patina_select_vocabulary(frames[i].state)),
             frames, i + 1)

RECURSIVE FrameWrites(_, _, _)
FrameWrites(cat, frames, i) ==
    IF i > Len(frames) THEN cat
    ELSE FrameWrites(
             ExtendWrites(cat, KeywordList(frames[i].nearest_visual_type),
                          _patina_select_vocabulary(frames[i].state)),
             frames, i + 1)

\* The catalogs after a prompt-generating call that returned r
PromptWrites(cat, r) ==
    IF "raised" \in DOMAIN r \/ "error" \in DOMAIN r THEN cat
    ELSE IF "keyframes" \in DOMAIN r THEN FrameWrites(cat, r.keyframes, 1)
    ELSE IF "prompt" \in DOMAIN r THEN FrameWrites(cat, <<r>>, 1)
    ELSE cat

\* The style modifier run into the prompt without the ", " separator
Prefix_NoSeparator(style_modifier) == style_modifier

\* f"{style_modifier}, " if style_modifier else ""
Prefix(style_modifier) ==
    IF style_modifier # "" THEN style_modifier \o ", " ELSE ""

extract_patina_visual_vocabulary(state, patina_id, strength) ==
    IF IsNoneDict(state) /\ patina_id = None
    THEN [error |-> "Provide either state or patina_id"]
    ELSE IF patina_id # None /\ patina_id \notin CanonicalSet
    THEN [error |-> "Unknown: " \o patina_id, available |-> CanonicalIds]
    ELSE LET st == IF patina_id # None
                   THEN PATINA_CANONICAL_STATES[patina_id]
                   ELSE state
         IN  IF FirstMissing(st, 1) # ""
             THEN [error |-> "Missing parameter: " \o FirstMissing(st, 1),
                   required |-> PATINA_PARAMETER_NAMES]
             ELSE LET v     == _patina_nearest_visual_type(st)
                      vdata == PATINA_VISUAL_TYPES[v[1]]
                      vocab == _patina_select_vocabulary(st)
                      c     == _patina_nearest_canonical(st)
                  IN  [nearest_visual_type |-> v[1],
                       distance |-> v[2],
                       keywords |-> vdata.keywords,
                       optical_properties |-> vdata.optical,
                       color_associations |-> vdata.color_associations,
                       nearest_canonical_state |-> c[1],
                       canonical_distance |-> c[2],
                       vocabulary_by_category |-> vocab,
                       strength |-> strength,
                       input_state |-> st]

\* int(attractor_id.replace("period_", "")) for the identifiers of the
\* attractor catalog; 0 stands for the ValueError of a non-numeric rest
ParsePeriod(attractor_id) ==
    IF attractor_id = "period_30" THEN 30
    ELSE IF attractor_id = "period_29" THEN 29
    ELSE IF attractor_id = "period_19" THEN 19
    ELSE IF attractor_id = "period_28" THEN 28
    ELSE IF attractor_id = "period_60" THEN 60
    ELSE 0

\* `diff <= best_period_diff`: among equally near presets the last one stays
RECURSIVE NearestPreset_LastWins(_, _, _)
NearestPreset_LastWins(target_period, i, best) ==
    IF i > Len(PresetIds) THEN best[1]
    ELSE LET diff == Abs(PATINA_RHYTHMIC_PRESETS[PresetIds[i]].period
                             - target_period)
         IN  IF diff <= best[2]
             THEN NearestPreset_LastWins(target_period, i + 1,
                                         <<PresetIds[i], diff>>)
             ELSE NearestPreset_LastWins(target_period, i + 1, best)

\* The loop over PATINA_RHYTHMIC_PRESETS.items() that keeps the preset whose
\* period is nearest the target, from position i on
RECURSIVE NearestPreset(_, _, _)
NearestPreset(target_period, i, best) ==
    IF i > Len(PresetIds) THEN best[1]
    ELSE LET diff == Abs(PATINA_RHYTHMIC_PRESETS[PresetIds[i]].period
                             - target_period)
         IN  IF diff < best[2]
             THEN NearestPreset(target_period, i + 1, <<PresetIds[i], diff>>)
             ELSE NearestPreset(target_period, i + 1, best)

\* The quotient rounded up
StepSize_RoundedUp(period, keyframe_count) ==
    Max(1, -FloorDiv(-period, keyframe_count))

\* step_size = max(1, period // keyframe_count), in both keyframe generators
StepSize(period, keyframe_count) ==
    Max(1, FloorDiv(period, keyframe_count))

\* The keyframe prompt without the style prefix
AttractorKeyframe_NoPrefix(cfg, step_size, prefix, ki) ==
    LET state_a   == PATINA_CANONICAL_STATES[cfg.state_a]
        state_b   == PATINA_CANONICAL_STATES[cfg.state_b]
        step      == (ki * step_size) % cfg.period
        t         == Quotient(step * Scale, cfg.period)
        kf_state  == _patina_interpolate_states(state_a, state_b, t,
                                                cfg.pattern)
        kf_v      == _patina_nearest_visual_type(kf_state)
        kf_vdata  == PATINA_VISUAL_TYPES[kf_v[1]]
        kf_vocab  == _patina_select_vocabulary(kf_state)
        unique_kf == Dedup(ExtendAll(kf_vdata.keywords, kf_vocab, 1))
    IN  [keyframe |-> ki,
         step |-> step,
         phase |-> t,
         prompt |-> Join(unique_kf, ", "),
         nearest_visual_type |-> kf_v[1],
         visual_distance |-> kf_v[2],
         state |-> kf_state]

\* The body of the keyframe loop of generate_patina_attractor_prompt
AttractorKeyframe(cfg, step_size, prefix, ki) ==
    LET state_a   == PATINA_CANONICAL_STATES[cfg.state_a]
        state_b   == PATINA_CANONICAL_STATES[cfg.state_b]
        step      == (ki * step_size) % cfg.period
        t         == Quotient(step * Scale, cfg.period)
        kf_state  == _patina_interpolate_states(state_a, state_b, t,
                                                cfg.pattern)
        kf_v      == _patina_nearest_visual_type(kf_state)
        kf_vdata  == PATINA_VISUAL_TYPES[kf_v[1]]
        kf_vocab  == _patina_select_vocabulary(kf_state)
        unique_kf == Dedup(ExtendAll(kf_vdata.keywords, kf_vocab, 1))
    IN  [keyframe |-> ki,
         step |-> step,
         phase |-> t,
         prompt |-> prefix \o Join(unique_kf, ", "),
         nearest_visual_type |-> kf_v[1],
         visual_distance |-> kf_v[2],
         state |-> kf_state]

\* The identifier is parsed whenever it is given, custom_state or not
target_period_FromAnyId(attractor_id, has_meta) ==
    LET parsed == ParsePeriod(attractor_id)
    IN  IF parsed = 0 THEN 30 ELSE parsed

\* The target period of sequence mode: parsed from the identifier `if
\* attractor_meta and attractor_meta.get("basin_size")`, 30 when that is
\* not so or the parse fails.  has_meta: the state came from the catalog
target_period(attractor_id, has_meta) ==
    LET parsed == IF has_meta
                     /\ PATINA_ATTRACTOR_PRESETS[attractor_id].basin_size # 0
                  THEN ParsePeriod(attractor_id)
                  ELSE 0
    IN  IF parsed = 0 THEN 30 ELSE parsed

\* The error names the mode and lists nothing
UnknownMode_NoList(mode) == [error |-> "Unknown mode: " \o mode]

\* The final else of the mode dispatch
UnknownMode(mode) ==
    [error |-> "Unknown mode: " \o mode,
     available |-> <<"composite", "split_view", "sequence">>]

generate_patina_attractor_prompt(attractor_id, custom_state, mode, style_modifier, keyframe_count) ==
    IF ~IsNoneDict(custom_state) /\ FirstMissing(custom_state, 1) # ""
    THEN [error |-> "Missing parameter: " \o FirstMissing(custom_state, 1),
          required |-> PATINA_PARAMETER_NAMES]
    ELSE IF IsNoneDict(custom_state) /\ attractor_id \notin AttractorSet
    THEN [error |-> "Provide attractor_id or custom_state",
          available_attractors |-> AttractorIds]
    ELSE
    LET has_meta == IsNoneDict(custom_state)
        attractor_meta == PATINA_ATTRACTOR_PRESETS[attractor_id]
        state  == IF has_meta THEN attractor_meta.state ELSE custom_state
        v      == _patina_nearest_visual_type(state)
        vdata  == PATINA_VISUAL_TYPES[v[1]]
        vocab  == _patina_select_vocabulary(state)
        c      == _patina_nearest_canonical(state)
        prefix == Prefix(style_modifier)
        id_or_custom   == IF attractor_id # "" THEN attractor_id ELSE "custom"
        name           == IF has_meta THEN attractor_meta.name
                                      ELSE "Custom State"
        classification == IF has_meta THEN attractor_meta.classification
                                      ELSE "custom"
    IN
    IF mode = "composite"
    THEN LET unique == Dedup(ExtendAll(vdata.keywords, vocab, 1))
         IN  [mode |-> "composite",
              prompt |-> prefix \o Join(unique, ", "),
              nearest_visual_type |-> v[1],
              visual_distance |-> v[2],
              nearest_canonical_state |-> c[1],
              optical_properties |-> vdata.optical,
              color_associations |-> vdata.color_associations,
              attractor |->
                  [id |-> id_or_custom,
                   name |-> name,
                   basin_size |-> IF has_meta THEN attractor_meta.basin_size
                                              ELSE 0,
                   classification |-> classification],
              state |-> state]
    ELSE IF mode = "split_view"
    THEN [mode |-> "split_view",
          panels |->
              [category \in CategorySet |->
                  [prompt |-> prefix \o Join(vocab[category], ", "),
                   terms |-> vocab[category]]],
          nearest_visual_type |-> v[1],
          visual_distance |-> v[2],
          optical_properties |-> vdata.optical,
          color_associations |-> vdata.color_associations,
          attractor |->
              [id |-> id_or_custom,
               name |-> name,
               classification |-> classification],
          state |-> state]
    ELSE IF mode = "sequence"
    THEN LET target        == target_period(attractor_id, has_meta)
             best_preset   == NearestPreset(target, 1, <<None, Inf>>)
             cfg           == PATINA_RHYTHMIC_PRESETS[best_preset]
             period        == cfg.period
         IN  IF keyframe_count = 0
             THEN Raised("ZeroDivisionError")
             ELSE LET step_size == StepSize(period, keyframe_count)
                      keyframes ==
                          [k \in 1..keyframe_count |->
                              AttractorKeyframe(cfg, step_size, prefix,
                                                Range(keyframe_count)[k])]
                  IN  [mode |-> "sequence",
                       preset_used |-> best_preset,
                       preset_period |-> period,
                       keyframe_count |-> keyframe_count,
                       keyframes |-> keyframes,
                       attractor |->
                           [id |-> id_or_custom,
                            name |-> name,
                            classification |-> classification]]
    ELSE UnknownMode(mode)

\* step = ki * step_size, not taken modulo the period
SequencePromptKeyframe_NoWrap(cfg, step_size, prefix, ki) ==
    LET state_a  == PATINA_CANONICAL_STATES[cfg.state_a]
        state_b  == PATINA_CANONICAL_STATES[cfg.state_b]
        step     == ki * step_size
        t        == Quotient(step * Scale, cfg.period)
        kf_state == _patina_interpolate_states(state_a, state_b, t,
                                               cfg.pattern)
        kf_v     == _patina_nearest_visual_type(kf_state)
        kf_vdata == PATINA_VISUAL_TYPES[kf_v[1]]
        kf_vocab == _patina_select_vocabulary(kf_state)
        unique   == Dedup(ExtendAll(kf_vdata.keywords, kf_vocab, 1))
    IN  [keyframe |-> ki,
         step |-> step,
         phase |-> t,
         prompt |-> prefix \o Join(unique, ", "),
         nearest_visual_type |-> kf_v[1],
         visual_distance |-> kf_v[2],
         state |-> kf_state]

\* The body of the keyframe loop of generate_patina_sequence_prompts
SequencePromptKeyframe(cfg, step_size, prefix, ki) ==
    LET state_a  == PATINA_CANONICAL_STATES[cfg.state_a]
        state_b  == PATINA_CANONICAL_STATES[cfg.state_b]
        step     == (ki * step_size) % cfg.period
        t        == Quotient(step * Scale, cfg.period)
        kf_state == _patina_interpolate_states(state_a, state_b, t,
                                               cfg.pattern)
        kf_v     == _patina_nearest_visual_type(kf_state)
        kf_vdata == PATINA_VISUAL_TYPES[kf_v[1]]
        kf_vocab == _patina_select_vocabulary(kf_state)
        unique   == Dedup(ExtendAll(kf_vdata.keywords, kf_vocab, 1))
    IN  [keyframe |-> ki,
         step |-> step,
         phase |-> t,
         prompt |-> prefix \o Join(unique, ", "),
         nearest_visual_type |-> kf_v[1],
         visual_distance |-> kf_v[2],
         state |-> kf_state]

generate_patina_sequence_prompts(preset_name, keyframe_count, style_modifier) ==
    IF preset_name \notin PresetSet
    THEN [error |-> "Unknown preset: " \o preset_name,
          available |-> PresetIds]
    ELSE LET cfg    == PATINA_RHYTHMIC_PRESETS[preset_name]
             period == cfg.period
             prefix == Prefix(style_modifier)
         IN  IF keyframe_count = 0
             THEN Raised("ZeroDivisionError")
             ELSE LET step_size == StepSize(period, keyframe_count)
                      keyframes ==
                          [k \in 1..keyframe_count |->
                              SequencePromptKeyframe(cfg, step_size, prefix,
                                                     Range(keyframe_count)[k])]
                  IN  [preset |-> preset_name,
                       period |-> period,
                       keyframe_count |-> keyframe_count,
                       keyframes |-> keyframes]

----------------------------------------------------------------------------
(* Intent classification and parameter mapping.  A text is a string; the   *)
(* keyword tables are those of _extract_keywords, in source order.         *)

material_patterns_keys ==
    <<"ferrous_metal",
      "copper_alloy",
      "silver",
      "limestone",
      "sandstone",
      "wood",
      "ceramic_glaze",
      "paper_textile",
      "paint_coating",
      "concrete",
      "glass">>

material_patterns == [
    ferrous_metal |->
        <<"iron", "steel", "rust", "rusted", "rusting", "corten", "ferrous">>,
    copper_alloy |->
        <<"copper", "bronze", "brass", "verdigris", "patina green">>,
    silver |->
        <<"silver", "tarnish", "tarnished", "sterling">>,
    limestone |->
        <<"limestone", "marble", "chalk", "calcite">>,
    sandstone |->
        <<"sandstone", "brownstone", "sandblast">>,
    wood |->
        <<"wood", "timber", "oak", "cedar", "driftwood", "wooden">>,
    ceramic_glaze |->
        <<"ceramic",
          "porcelain",
          "pottery",
          "glaze",
          "terracotta",
          "craquelure">>,
    paper_textile |->
        <<"paper",
          "canvas",
          "textile",
          "fabric",
          "vellum",
          "parchment",
          "linen">>,
    paint_coating |->
        <<"paint",
          "painted",
          "lacquer",
          "varnish",
          "coating",
          "peeling paint">>,
    concrete |->
        <<"concrete", "cement", "brutalist", "rebar">>,
    glass |->
        <<"glass", "stained glass", "iridescent glass">>
]

agent_patterns_keys ==
    <<"water", "uv_solar", "chemical", "biological", "mechanical", "thermal">>

agent_patterns == [
    water |->
        <<"rain",
          "water",
          "flood",
          "moisture",
          "wet",
          "damp",
          "coastal",
          "salt spray">>,
    uv_solar |->
        <<"sun", "uv", "faded", "fading", "bleach", "solar">>,
    chemical |->
        <<"acid", "pollution", "sulfur", "corrosion", "industrial">>,
    biological |->
        <<"lichen", "moss", "algae", "fungal", "mold", "ivy", "overgrown">>,
    mechanical |->
        <<"worn", "abraded", "polished", "traffic", "scratched", "chipped">>,
    thermal |->
        <<"fire", "burned", "frost", "frozen", "heat", "calcined">>
]

condition_patterns_keys ==
    <<"pristine",
      "light_weathering",
      "moderate_weathering",
      "advanced_decay",
      "severe_deterioration",
      "ruin">>

condition_patterns == [
    pristine |->
        <<"new", "pristine", "fresh", "mint", "unused", "unworn">>,
    light_weathering |->
        <<"slightly aged", "gentle wear", "mild patina", "light weathering">>,
    moderate_weathering |->
        <<"aged", "weathered", "patinated", "worn", "used", "vintage">>,
    advanced_decay |->
        <<"decayed", "deteriorated", "damaged", "crumbling">>,
    severe_deterioration |->
        <<"ruined", "derelict", "abandoned", "collapsed">>,
    ruin |->
        <<"ruin", "ruins", "archaeological", "ancient", "fragment">>
]

aesthetic_patterns_keys ==
    <<"wabi_sabi", "industrial", "romantic_ruin", "conservation", "kintsugi">>

aesthetic_patterns == [
    wabi_sabi |->
        <<"wabi", "sabi", "wabi-sabi", "imperfect beauty", "noble age">>,
    industrial |->
        <<"industrial", "brutalist", "raw", "gritty">>,
    romantic_ruin |->
        <<"romantic ruin", "picturesque", "overgrown", "reclaimed by nature">>,
    conservation |->
        <<"conserved", "restored", "stabilized", "repaired">>,
    kintsugi |->
        <<"kintsugi", "gold repair", "visible mend", "embracing damage">>
]

UpperCase == "ABCDEFGHIJKLMNOPQRSTUVWXYZ"

LowerCase == "abcdefghijklmnopqrstuvwxyz"

\* The lower-case form of one character, searched from letter i on
RECURSIVE LowerChar(_, _)
LowerChar(c, i) ==
    IF i > Len(UpperCase) THEN c
    ELSE IF SubSeq(UpperCase, i, i) = c THEN SubSeq(LowerCase, i, i)
    ELSE LowerChar(c, i + 1)

\* text.lower()
RECURSIVE Lower(_)
Lower(text) ==
    IF Len(text) = 0 THEN ""
    ELSE LowerChar(SubSeq(text, 1, 1), 1) \o Lower(SubSeq(text, 2, Len(text)))

\* p in text
Contains(p, text) ==
    \E i \in 1..(Len(text) - Len(p) + 1) : SubSeq(text, i, i + Len(p) - 1) = p

\* any(w in text for w in words)
AnyIn(words, text) == \E j \in 1..Len(words) : Contains(words[j], text)

\* One loop of _extract_keywords: the keys, in table order, one of whose
\* patterns occurs in the text
MatchPatterns(keys, patterns, text_lower) ==
    LET Hit(k) == AnyIn(patterns[k], text_lower)
    IN  SelectSeq(keys, Hit)

_extract_keywords(text) ==
    LET text_lower == Lower(text)
    IN  [materials  |-> MatchPatterns(material_patterns_keys, material_patterns, text_lower),
         agents     |-> MatchPatterns(agent_patterns_keys, agent_patterns, text_lower),
         conditions |-> MatchPatterns(condition_patterns_keys, condition_patterns, text_lower),
         aesthetics |-> MatchPatterns(aesthetic_patterns_keys, aesthetic_patterns, text_lower)]

MaterialSet == SeqToSet(MaterialIds)

AgentSet == SeqToSet(AgentIds)

GradeSet == SeqToSet(GradeIds)

condition_to_canonical == [
    pristine             |-> "fresh_pristine",
    light_weathering     |-> "gentle_patina",
    moderate_weathering  |-> "noble_verdigris",
    advanced_decay       |-> "deep_rust",
    severe_deterioration |-> "stone_erosion",
    ruin                 |-> "total_ruin"
]

\* The condition grade inferred when no condition keyword matched
InferCondition(user_intent) ==
    LET intent_lower == Lower(user_intent)
    IN  IF AnyIn(<<"old", "ancient", "centuries">>, intent_lower)
        THEN "advanced_decay"
        ELSE IF AnyIn(<<"aged", "vintage", "antique">>, intent_lower)
        THEN "moderate_weathering"
        ELSE IF AnyIn(<<"new", "clean", "fresh">>, intent_lower)
        THEN "pristine"
        ELSE "moderate_weathering"

classify_weathering_intent(user_intent) ==
    LET matches == _extract_keywords(user_intent)
        primary_material == IF matches.materials # <<>>
                            THEN matches.materials[1] ELSE "ferrous_metal"
        primary_agents == IF matches.agents # <<>>
                          THEN matches.agents ELSE <<"water", "uv_solar">>
        condition == IF matches.conditions # <<>>
                     THEN matches.conditions[1]
                     ELSE InferCondition(user_intent)
        aesthetic == IF matches.aesthetics # <<>>
                     THEN matches.aesthetics[1] ELSE "wabi_sabi"
        canonical_state == IF condition \in DOMAIN condition_to_canonical
                           THEN condition_to_canonical[condition]
                           ELSE "gentle_patina"
        total_matches == Len(matches.materials) + Len(matches.agents)
                         + Len(matches.conditions) + Len(matches.aesthetics)
        confidence == Min((total_matches * Scale) \div 5, Scale)
    IN  [primary_material |-> primary_material,
         material_details |->
             [name |-> MATERIAL_CATEGORIES[primary_material].name,
              characteristic_patina |->
                  MATERIAL_CATEGORIES[primary_material].characteristic_patina],
         primary_agents |-> primary_agents,
         condition_grade |-> condition,
         condition_details |-> CONDITION_GRADES[condition],
         aesthetic_mode |-> aesthetic,
         nearest_canonical_state |-> canonical_state,
         confidence |-> Max(confidence, 3 * (Scale \div 10)),
         matched_keywords |-> matches]

\* grade_to_state.get(condition_grade, "gentle_patina")
GradeToState(material_id, condition_grade) ==
    IF condition_grade = "pristine" THEN "fresh_pristine"
    ELSE IF condition_grade = "light_weathering" THEN "gentle_patina"
    ELSE IF condition_grade = "moderate_weathering"
    THEN (IF material_id = "copper_alloy" THEN "noble_verdigris"
                                          ELSE "cracked_glaze")
    ELSE IF condition_grade = "advanced_decay"
    THEN (IF material_id = "ferrous_metal" THEN "deep_rust"
                                           ELSE "stone_erosion")
    ELSE IF condition_grade = "severe_deterioration" THEN "stone_erosion"
    ELSE IF condition_grade = "ruin" THEN "total_ruin"
    ELSE "gentle_patina"

\* intensity_weights.get(intensity, 1.0), in Scale units
IntensityWeight(intensity) ==
    IF intensity = "subtle" THEN 6 * (Scale \div 10)
    ELSE IF intensity = "dramatic" THEN 15 * (Scale \div 10)
    ELSE Scale

emphasis_map == [
    surface    |-> "surface_texture",
    color      |-> "color_transformation",
    structure  |-> "structural_integrity",
    biological |-> "biological_colonization",
    temporal   |-> "temporal_evidence",
    light      |-> "light_interaction"
]

\* items[lo:hi] of a Python list, 0 <= lo
Slice(items, lo, hi) == SubSeq(items, lo + 1, Min(hi, Len(items)))

map_weathering_parameters(material_id, condition_grade, primary_agent, intensity, emphasis) ==
    IF material_id \notin MaterialSet
    THEN [error |-> "Unknown material: " \o material_id,
          available |-> MaterialIds]
    ELSE IF condition_grade \notin GradeSet
    THEN [error |-> "Unknown grade: " \o condition_grade,
          available |-> GradeIds]
    ELSE
    LET mat   == MATERIAL_CATEGORIES[material_id]
        grade == CONDITION_GRADES[condition_grade]
        agent == IF primary_agent \in AgentSet
                 THEN WEATHERING_AGENTS[primary_agent]
                 ELSE WEATHERING_AGENTS["water"]
        state_id == GradeToState(material_id, condition_grade)
        state == PATINA_CANONICAL_STATES[state_id]
        nearest == _patina_nearest_visual_type(state)
        vtype == nearest[1]
        vdist == nearest[2]
        vdata == PATINA_VISUAL_TYPES[vtype]
        vocab == _patina_select_vocabulary(state)
        primary_cat == IF emphasis \in DOMAIN emphasis_map
                       THEN emphasis_map[emphasis] ELSE "surface_texture"
        primary_terms == IF primary_cat \in DOMAIN vocab
                         THEN vocab[primary_cat] ELSE <<>>
        grade_index == grade.grade - 1
        marker_index == Min(grade_index, Len(mat.visual_markers) - 1)
        material_markers == Slice(mat.visual_markers,
                                  Max(0, marker_index - 1), marker_index + 2)
        color_index == Min(grade_index, Len(mat.color_progression) - 1)
        current_color == mat.color_progression[color_index + 1]
    IN  [material_id |-> material_id,
         material_name |-> mat.name,
         condition_grade |-> condition_grade,
         primary_agent |-> primary_agent,
         intensity |-> intensity,
         emphasis |-> emphasis,
         weight |-> IntensityWeight(intensity),
         state |-> state,
         nearest_visual_type |-> vtype,
         visual_distance |-> vdist,
         optical_properties |-> vdata.optical,
         current_color_stage |-> current_color,
         material_specific_markers |-> material_markers,
         agent_visual_indicators |-> agent.visual_indicators,
         primary_vocabulary |-> primary_terms,
         full_vocabulary |-> vocab,
         keywords |-> vdata.keywords,
         color_associations |-> vdata.color_associations]

\* The truth value of an Optional[str] argument
Truthy(s) == s # None /\ s # ""

enhance_patina_prompt(user_intent, material_override, condition_override, intensity) ==
    LET classification == classify_weathering_intent(user_intent)
        material_id == IF Truthy(material_override) THEN material_override
                       ELSE classification.primary_material
        condition == IF Truthy(condition_override) THEN condition_override
                     ELSE classification.condition_grade
        primary_agent == IF classification.primary_agents # <<>>
                         THEN classification.primary_agents[1] ELSE "water"
        params == map_weathering_parameters(material_id, condition,
                                            primary_agent, intensity, "surface")
    IN  IF material_id \notin MaterialSet
        THEN Raised("KeyError")
        ELSE
        LET mat == MATERIAL_CATEGORIES[material_id]
        IN  [original_intent |-> user_intent,
             intensity |-> intensity,
             classification |-> classification,
             weathering_specification |-> params,
             material_context |->
                 [name |-> mat.name,
                  characteristic_patina |-> mat.characteristic_patina,
                  color_progression |-> mat.color_progression,
                  time_scale |-> mat.time_scale],
             synthesis_instructions |->
                 [task |-> "Synthesize image generation prompt from deterministic weathering parameters",
                  approach |-> "Translate conservation science taxonomy into concrete visual descriptors",
                  emphasis |-> "Apply " \o intensity \o " intensity to vocabulary selection",
                  guidelines |->
                      <<"Use material_specific_markers for physical accuracy",
                        "Reference color_progression for current weathering stage",
                        "Translate agent_visual_indicators into observable surface evidence",
                        "Maintain specificity - name the oxide, the organism, the fracture mode",
                        "Preserve the aesthetic_character value (wabi-sabi vs destructive)",
                        "Describe patina as surface evidence not metaphor">>]]

----------------------------------------------------------------------------
(* Inputs the operations are exercised with *)

GridN == 2

PhaseDen == 8

MaxCycles == 2

MaxSteps == 3

MaxTrajectory == 3

CanonicalPoints == {PATINA_CANONICAL_STATES[sid] : sid \in CanonicalSet}

VisualPoints == {PATINA_VISUAL_TYPES[vid].center : vid \in VisualTypeSet}

AttractorPoints == {PATINA_ATTRACTOR_PRESETS[aid].state : aid \in AttractorSet}

Midpoint(a, b) == [p \in ParamSet |-> (a[p] + b[p]) \div 2]

\* Every coordinate of GridN + 1 evenly spaced values per axis
GridPoints == [ParamSet -> {(k * Scale) \div GridN : k \in 0..GridN}]

\* Catalog entries, points halfway between two entries of one catalog
\* (equidistant from both), and the grid
ClassifyPoints ==
    CanonicalPoints \cup VisualPoints \cup AttractorPoints
    \cup {Midpoint(a, b) : a \in CanonicalPoints, b \in CanonicalPoints}
    \cup {Midpoint(a, b) : a \in VisualPoints, b \in VisualPoints}
    \cup GridPoints

EndPoints == CanonicalPoints \cup VisualPoints

Phases == {0, Half, Scale} \cup {RoundDiv(k * Scale, PhaseDen) : k \in 0..PhaseDen}

Patterns == {"sinusoidal", "triangular", "square", "linear"}

NamedPatterns == {"sinusoidal", "triangular", "square"}

\* Keys of every named catalog, and two strings that are keys of none.
\* "oxidation_bloom" names a preset and a visual type but no canonical state.
IdInputs ==
    CanonicalSet \cup PresetSet \cup AttractorSet \cup {"", "no_such_id"}

\* Identifiers passed along with a caller-supplied coordinate, which takes
\* precedence over them: none, a catalogued attractor, an unknown one
CustomStateIds == {"", "period_19", "no_such_id"}

StateIdInputs == CanonicalSet \cup {"oxidation_bloom", "period_30", ""}

PhaseOffsets == {0, Scale \div 4, Half, -(Scale \div 4), Scale + Half}

\* Offsets -0.6667 and 1.3333: with three steps per cycle the last step is
\* at 2/3 + offset, just below a whole number
ThirdOffsets == {-6667, 13333}

MaxKeyframes == 4

\* A caller-supplied coordinate without aesthetic_character
MissingAxisState ==
    [exposure_duration |-> 2500, agent_intensity |-> 7500,
     material_resistance |-> 5000, intervention_state |-> 0]

\* A caller-supplied coordinate with an axis the space does not have
ExtraAxisState ==
    [exposure_duration |-> 2500, agent_intensity |-> 7500,
     material_resistance |-> 5000, intervention_state |-> 0,
     aesthetic_character |-> 5000, gloss |-> 5000]

\* A coordinate on the boundary of the unit cube
CornerState ==
    [exposure_duration |-> Scale, agent_intensity |-> 0,
     material_resistance |-> Half, intervention_state |-> 0,
     aesthetic_character |-> Half]

\* Coordinates with axis values below 0 and above 1
OutOfRangeStates ==
    {[exposure_duration |-> Scale + Half, agent_intensity |-> -Half,
      material_resistance |-> Half, intervention_state |-> 0,
      aesthetic_character |-> Half],
     [exposure_duration |-> -Half, agent_intensity |-> Scale + Half,
      material_resistance |-> 0, intervention_state |-> 2 * Scale,
      aesthetic_character |-> -(Scale \div 4)]}

\* Values for an Optional[Dict] coordinate argument
StateInputs ==
    {NoneDict, MissingAxisState, ExtraAxisState, CornerState}
    \cup OutOfRangeStates
    \cup CanonicalPoints \cup AttractorPoints
    \cup {Midpoint(a, b) : a \in VisualPoints, b \in VisualPoints}

Modes == {"composite", "split_view", "sequence", "panorama"}

StyleModifiers == {"", "oil painting"}

\* Keyframe counts larger than the period of a preset (16, 18, 20)
WrapCounts == {17, 21}

KeyframeCounts == (-1..MaxKeyframes) \cup WrapCounts

Periods == {PATINA_RHYTHMIC_PRESETS[n].period : n \in PresetSet}

\* The longest period of a preset (30)
LongestPeriod == CHOOSE p \in Periods : \A q \in Periods : q <= p

\* Every keyframe count up to the longest period, and one above
PeriodCounts == 1..(LongestPeriod + 1)


\* The custom oscillation that replays preset n: its states and waveform,
\* one cycle of `period` steps, no offset
ReplaysPreset(n, a, b, pattern, cycles, steps, offset) ==
    LET cfg == PATINA_RHYTHMIC_PRESETS[n]
    IN  /\ a = cfg.state_a
        /\ b = cfg.state_b
        /\ pattern = cfg.pattern
        /\ cycles = 1
        /\ steps = cfg.period
        /\ offset = 0

Intents ==
    {"", "Rusted iron gate", "ancient bronze statue", "old wall",
     "fresh clean porcelain", "weathered oak, moss and lichen",
     "abandoned concrete, gritty", "mild patina on silver, kintsugi"}

MaterialInputs == {"ferrous_metal", "copper_alloy", "glass", "granite"}

GradeInputs == GradeSet \cup {"excellent"}

AgentInputs == {"water", "biological", "wind"}

Intensities == {"subtle", "moderate", "dramatic", "extreme"}

Emphases == {"surface", "light", "depth"}

MaterialOverrides == {None, "", "wood", "granite"}

ConditionOverrides == {None, "ruin", "excellent"}

----------------------------------------------------------------------------
(* The server: idle until a call arrives, the call runs to its result,     *)
(* and the server is idle again.  No call leaves anything behind.          *)

Idle == op = ""

\* No call is remembered
NoCall == [op |-> ""]

\* One more call was made since the remembered one (counted up to 2)
Later(e) ==
    IF e.op = "" THEN e
    ELSE [e EXCEPT !.calls = IF @ < 2 THEN @ + 1 ELSE @]

Init ==
    /\ catalogs = LoadedCatalogs
    /\ op = ""
    /\ args = <<>>
    /\ result = <<>>
    /\ earlier = NoCall

NearestCanonical(state) ==
    /\ Idle
    /\ op' = "_patina_nearest_canonical"
    /\ UNCHANGED catalogs
    /\ earlier' = Later(earlier)
    /\ args' = [state |-> state]
    /\ result' = _patina_nearest_canonical(state)

NearestVisualType(state) ==
    /\ Idle
    /\ op' = "_patina_nearest_visual_type"
    /\ UNCHANGED catalogs
    /\ earlier' = Later(earlier)
    /\ args' = [state |-> state]
    /\ result' = _patina_nearest_visual_type(state)

InterpolateStates(state_a, state_b, t, pattern) ==
    /\ Idle
    /\ op' = "_patina_interpolate_states"
    /\ UNCHANGED catalogs
    /\ earlier' = Later(earlier)
    /\ args' = [state_a |-> state_a, state_b |-> state_b, t |-> t,
                pattern |-> pattern]
    /\ result' = _patina_interpolate_states(state_a, state_b, t, pattern)

ApplyPatinaRhythmicPreset(preset_name) ==
    /\ Idle
    /\ op' = "apply_patina_rhythmic_preset"
    /\ UNCHANGED catalogs
    /\ earlier' = Later(earlier)
    /\ args' = [preset_name |-> preset_name]
    /\ result' = apply_patina_rhythmic_preset(preset_name)

GeneratePatinaRhythmicSequence(a, b, pattern, cycles, steps, offset) ==
    /\ Idle
    /\ op' = "generate_patina_rhythmic_sequence"
    /\ UNCHANGED catalogs
    /\ earlier' = Later(earlier)
    /\ args' = [state_a_id |-> a, state_b_id |-> b,
                oscillation_pattern |-> pattern, num_cycles |-> cycles,
                steps_per_cycle |-> steps, phase_offset |-> offset]
    /\ result' = generate_patina_rhythmic_sequence(a, b, pattern, cycles,
                                                   steps, offset)

ComputePatinaDistance(id1, id2) ==
    /\ Idle
    /\ op' = "compute_patina_distance"
    /\ UNCHANGED catalogs
    /\ earlier' = Later(earlier)
    /\ args' = [patina_id_1 |-> id1, patina_id_2 |-> id2]
    /\ result' = compute_patina_distance(id1, id2)

ComputePatinaTrajectory(id1, id2, num_steps) ==
    /\ Idle
    /\ op' = "compute_patina_trajectory"
    /\ UNCHANGED catalogs
    /\ earlier' = Later(earlier)
    /\ args' = [start_patina_id |-> id1, end_patina_id |-> id2,
                num_steps |-> num_steps]
    /\ result' = compute_patina_trajectory(id1, id2, num_steps)

ExtractPatinaVisualVocabulary(state, patina_id, strength) ==
    /\ Idle
    /\ op' = "extract_patina_visual_vocabulary"
    /\ UNCHANGED catalogs
    /\ earlier' = Later(earlier)
    /\ args' = [state |-> state, patina_id |-> patina_id,
                strength |-> strength]
    /\ result' = extract_patina_visual_vocabulary(state, patina_id, strength)

GeneratePatinaAttractorPrompt(attractor_id, custom_state, mode, style_modifier, keyframe_count) ==
    /\ Idle
    /\ op' = "generate_patina_attractor_prompt"
    /\ args' = [attractor_id |-> attractor_id, custom_state |-> custom_state,
                mode |-> mode, style_modifier |-> style_modifier,
                keyframe_count |-> keyframe_count]
    /\ result' = generate_patina_attractor_prompt(
                     attractor_id, custom_state, mode, style_modifier,
                     keyframe_count)
    /\ catalogs' = PromptWrites(catalogs, result')
    /\ earlier' = Later(earlier)

GeneratePatinaSequencePrompts(preset_name, keyframe_count, style_modifier) ==
    /\ Idle
    /\ op' = "generate_patina_sequence_prompts"
    /\ args' = [preset_name |-> preset_name,
                keyframe_count |-> keyframe_count,
                style_modifier |-> style_modifier]
    /\ result' = generate_patina_sequence_prompts(
                     preset_name, keyframe_count, style_modifier)
    /\ catalogs' = PromptWrites(catalogs, result')
    /\ earlier' = Later(earlier)

ClassifyWeatheringIntent(user_intent) ==
    /\ Idle
    /\ op' = "classify_weathering_intent"
    /\ UNCHANGED catalogs
    /\ earlier' = Later(earlier)
    /\ args' = [user_intent |-> user_intent]
    /\ result' = classify_weathering_intent(user_intent)

MapWeatheringParameters(material_id, condition_grade, primary_agent, intensity, emphasis) ==
    /\ Idle
    /\ op' = "map_weathering_parameters"
    /\ UNCHANGED catalogs
    /\ earlier' = Later(earlier)
    /\ args' = [material_id |-> material_id,
                condition_grade |-> condition_grade,
                primary_agent |-> primary_agent, intensity |-> intensity,
                emphasis |-> emphasis]
    /\ result' = map_weathering_parameters(material_id, condition_grade,
                                           primary_agent, intensity, emphasis)

EnhancePatinaPrompt(user_intent, material_override, condition_override, intensity) ==
    /\ Idle
    /\ op' = "enhance_patina_prompt"
    /\ UNCHANGED catalogs
    /\ earlier' = Later(earlier)
    /\ args' = [user_intent |-> user_intent,
                material_override |-> material_override,
                condition_override |-> condition_override,
                intensity |-> intensity]
    /\ result' = enhance_patina_prompt(user_intent, material_override,
                                       condition_override, intensity)

\* The call has returned; the server waits for the next one
NextRequest ==
    /\ ~Idle
    /\ UNCHANGED <<catalogs, earlier>>
    /\ op' = ""
    /\ args' = <<>>
    /\ result' = <<>>

Next ==
    \/ Idle /\ \E state \in ClassifyPoints : NearestCanonical(state)
    \/ Idle /\ \E state \in ClassifyPoints : NearestVisualType(state)
    \/ Idle /\ \E a \in EndPoints, b \in EndPoints, t \in Phases,
                  w \in Patterns :
           InterpolateStates(a, b, t, w)
    \/ Idle /\ \E n \in IdInputs : ApplyPatinaRhythmicPreset(n)
    \/ Idle /\ \E a \in StateIdInputs, b \in StateIdInputs, w \in Patterns,
                  c \in -1..MaxCycles, s \in (-1..MaxSteps) \cup Periods,
                  o \in PhaseOffsets \cup ThirdOffsets :
           /\ o \in ThirdOffsets => c = 1 /\ s = 3
           /\ s > MaxSteps => \E n \in PresetSet :
                                  ReplaysPreset(n, a, b, w, c, s, o)
           /\ GeneratePatinaRhythmicSequence(a, b, w, c, s, o)
    \/ Idle /\ \E a \in StateIdInputs, b \in StateIdInputs :
           ComputePatinaDistance(a, b)
    \/ Idle /\ \E a \in StateIdInputs, b \in StateIdInputs,
                  n \in -1..MaxTrajectory :
           ComputePatinaTrajectory(a, b, n)
    \/ Idle /\ \E st \in StateInputs, id \in StateIdInputs \cup {None},
                  strength \in {Half, Scale} :
           ExtractPatinaVisualVocabulary(st, id, strength)
    \/ Idle /\ \E id \in IdInputs, st \in StateInputs, m \in Modes,
                  style \in StyleModifiers, k \in KeyframeCounts :
           /\ k \in WrapCounts => IsNoneDict(st) /\ m = "sequence"
           /\ ~IsNoneDict(st) => id \in CustomStateIds
           /\ GeneratePatinaAttractorPrompt(id, st, m, style, k)
    \/ Idle /\ \E n \in IdInputs, k \in KeyframeCounts \cup PeriodCounts,
                  style \in StyleModifiers :
           /\ k \notin KeyframeCounts => n \in PresetSet /\ style = ""
           /\ GeneratePatinaSequencePrompts(n, k, style)
    \/ Idle /\ \E text \in Intents : ClassifyWeatheringIntent(text)
    \/ Idle /\ \E m \in MaterialInputs, g \in GradeInputs, a \in AgentInputs,
                  i \in Intensities, e \in Emphases :
           MapWeatheringParameters(m, g, a, i, e)
    \/ Idle /\ \E text \in Intents, m \in MaterialOverrides,
                  c \in ConditionOverrides, i \in Intensities :
           EnhancePatinaPrompt(text, m, c, i)
    \/ NextRequest

Spec == Init /\ [][Next]_vars

----------------------------------------------------------------------------
(* The same server with a history variable: one call, its arguments and    *)
(* what it returned are remembered while any calls follow.  Every          *)
(* operation is called, _patina_select_vocabulary directly, on inputs      *)
(* few enough to pair every call with every other.                         *)

SelectVocabulary(state) ==
    /\ Idle
    /\ op' = "_patina_select_vocabulary"
    /\ UNCHANGED catalogs
    /\ earlier' = Later(earlier)
    /\ args' = [state |-> state]
    /\ result' = _patina_select_vocabulary(state)

\* History only: the call that has just returned is the remembered one
Remember ==
    /\ ~Idle
    /\ earlier.op = ""
    /\ earlier' = [op |-> op, args |-> args, result |-> result, calls |-> 0]
    /\ UNCHANGED <<catalogs, op, args, result>>

ReplayPoints == CanonicalPoints \cup {CornerState}

ReplayStateIds == {CanonicalIds[1], CanonicalIds[2]}

ReplayPresets == {PresetIds[1], PresetIds[2], "no_such_id"}

ReplayAttractors == {AttractorIds[1], AttractorIds[2], AttractorIds[3]}

ReplayIntents == {"Rusted iron gate", "old wall"}

ReplayNext ==
    \/ Idle /\ \E state \in ReplayPoints : SelectVocabulary(state)
    \/ Idle /\ \E state \in ReplayPoints : NearestCanonical(state)
    \/ Idle /\ \E state \in ReplayPoints : NearestVisualType(state)
    \/ Idle /\ \E t \in {0, Half}, w \in {"sinusoidal", "linear"} :
           InterpolateStates(PATINA_CANONICAL_STATES[CanonicalIds[1]],
                             PATINA_CANONICAL_STATES[CanonicalIds[2]], t, w)
    \/ Idle /\ \E n \in ReplayPresets : ApplyPatinaRhythmicPreset(n)
    \/ Idle /\ \E w \in {"sinusoidal", "square"}, s \in {2, 3} :
           GeneratePatinaRhythmicSequence(CanonicalIds[1], CanonicalIds[2],
                                          w, 1, s, 0)
    \/ Idle /\ \E a \in ReplayStateIds, b \in ReplayStateIds :
           ComputePatinaDistance(a, b)
    \/ Idle /\ \E n \in {2, 3} :
           ComputePatinaTrajectory(CanonicalIds[1], CanonicalIds[2], n)
    \/ Idle /\ \E st \in {NoneDict, CornerState},
                  id \in {None, CanonicalIds[1]} :
           ExtractPatinaVisualVocabulary(st, id, Scale)
    \/ Idle /\ \E id \in ReplayAttractors,
                  m \in {"composite", "split_view", "sequence"} :
           GeneratePatinaAttractorPrompt(id, NoneDict, m, "", 2)
    \/ Idle /\ \E n \in ReplayPresets, k \in {2, 3} :
           GeneratePatinaSequencePrompts(n, k, "")
    \/ Idle /\ \E text \in ReplayIntents : ClassifyWeatheringIntent(text)
    \/ Idle /\ \E g \in {"pristine", "excellent"} :
           MapWeatheringParameters("ferrous_metal", g, "water", "moderate",
                                   "surface")
    \/ Idle /\ \E text \in ReplayIntents :
           EnhancePatinaPrompt(text, None, None, "moderate")
    \/ Remember
    \/ NextRequest

ReplaySpec == Init /\ [][ReplayNext]_vars

----------------------------------------------------------------------------
(* Properties *)

IsError(r) == "error" \in DOMAIN r

\* The position of the first entry of `ids` at minimal distance from state
FirstClosest(state, ids, centers) ==
    CHOOSE i \in 1..Len(ids) :
        /\ \A j \in 1..Len(ids) :
               SquaredDistance(state, centers[ids[i]])
                   <= SquaredDistance(state, centers[ids[j]])
        /\ \A j \in 1..(i - 1) :
               SquaredDistance(state, centers[ids[j]])
                   > SquaredDistance(state, centers[ids[i]])

\* The entries of `ids` at minimal distance from state
Closest(state, ids, centers) ==
    {i \in 1..Len(ids) :
        \A j \in 1..Len(ids) :
            SquaredDistance(state, centers[ids[i]])
                <= SquaredDistance(state, centers[ids[j]])}

\* C1: classification against either catalog returns, among the entries at
\* minimal distance from the point, the one that comes first in the catalog.
C1_FirstInCatalogWinsTies ==
    /\ op = "_patina_nearest_canonical" =>
           result[1] = CanonicalIds[FirstClosest(args.state, CanonicalIds,
                                                 CanonicalCenters)]
    /\ op = "_patina_nearest_visual_type" =>
           result[1] = VisualTypeIds[FirstClosest(args.state, VisualTypeIds,
                                                  VisualCenters)]

\* A point equidistant from two nearest canonical states has been classified
C1_Witness ==
    /\ op = "_patina_nearest_canonical"
    /\ Cardinality(Closest(args.state, CanonicalIds, CanonicalCenters)) >= 2
    /\ result[1] = "fresh_pristine"

\* C2: nearest returns a key of the catalog searched and a distance >= 0 that
\* no entry of the catalog undercuts; a point that coincides with an entry is
\* classified as that entry at distance 0.
C2_NearestIsMinimalAndExactOnEntries ==
    /\ op = "_patina_nearest_canonical" =>
           /\ result[1] \in CanonicalSet
           /\ result[2] >= 0
           /\ \A sid \in CanonicalSet :
                  /\ result[2] <= _patina_euclidean_distance(
                                      args.state, PATINA_CANONICAL_STATES[sid])
                  /\ args.state = PATINA_CANONICAL_STATES[sid] =>
                         result = <<sid, 0>>
    /\ op = "_patina_nearest_visual_type" =>
           /\ result[1] \in VisualTypeSet
           /\ result[2] >= 0
           /\ \A vid \in VisualTypeSet :
                  /\ result[2] <= _patina_euclidean_distance(
                                      args.state, PATINA_VISUAL_TYPES[vid].center)
                  /\ args.state = PATINA_VISUAL_TYPES[vid].center =>
                         result = <<vid, 0>>

\* The coordinate (0.0, 0.0, 0.5, 0.0, 0.5) classified as fresh_pristine at 0
C2_Witness ==
    /\ op = "_patina_nearest_canonical"
    /\ args.state = [exposure_duration |-> 0, agent_intensity |-> 0,
                     material_resistance |-> Half, intervention_state |-> 0,
                     aesthetic_character |-> Half]
    /\ result = <<"fresh_pristine", 0>>

\* C3 as stated: at phase 0 every named waveform yields a, at phase 1 every
\* named waveform yields b.
C3_EndpointsAsStated ==
    (op = "_patina_interpolate_states" /\ args.pattern \in NamedPatterns) =>
        /\ args.t = 0 => result = args.state_a
        /\ args.t = Scale => result = args.state_b

\* C3 amended: at phase 0 every named waveform yields a; at phase 1 the
\* sinusoidal and square waveforms yield b and the triangular waveform,
\* which has folded back, yields a.
C3_Endpoints ==
    (op = "_patina_interpolate_states" /\ args.pattern \in NamedPatterns) =>
        /\ args.t = 0 => result = args.state_a
        /\ (args.t = Scale /\ args.pattern \in {"sinusoidal", "square"}) =>
               result = args.state_b
        /\ (args.t = Scale /\ args.pattern = "triangular") =>
               result = args.state_a

\* The triangular waveform evaluated at phase 1 between two distinct states
C3_Witness ==
    /\ op = "_patina_interpolate_states"
    /\ args.pattern = "triangular"
    /\ args.t = Scale
    /\ args.state_a # args.state_b
    /\ result = args.state_a

\* C4 as stated: the triangular waveform at phase 0.5 yields the per-axis
\* midpoint (a + b) / 2.
C4_MidpointAsStated ==
    (/\ op = "_patina_interpolate_states"
     /\ args.pattern = "triangular"
     /\ args.t = Half) =>
        \A p \in ParamSet : 2 * result[p] = args.state_a[p] + args.state_b[p]

\* C4 amended: the triangular waveform at phase 0.5 yields b on every axis.
C4_TriangularHalfIsB ==
    (/\ op = "_patina_interpolate_states"
     /\ args.pattern = "triangular"
     /\ args.t = Half) =>
        \A p \in ParamSet : result[p] = args.state_b[p]

\* The triangular waveform evaluated at phase 0.5 between two distinct states
C4_Witness ==
    /\ op = "_patina_interpolate_states"
    /\ args.pattern = "triangular"
    /\ args.t = Half
    /\ args.state_a # args.state_b
    /\ result = args.state_b

\* C5: the triangular blend weight is 2*phase up to phase 0.5 and
\* 2*(1-phase) above it; the weight is 1 (the result is b) at phase 0.5 and
\* at no other phase; the result at phase p is the result at phase 1-p.
C5_TriangularShape ==
    (op = "_patina_interpolate_states" /\ args.pattern = "triangular") =>
        LET w == IF args.t <= Half THEN 2 * args.t ELSE 2 * (Scale - args.t)
        IN  /\ \A p \in ParamSet :
                   result[p] = args.state_a[p]
                       + RoundDiv(w * (args.state_b[p] - args.state_a[p]), Scale)
            /\ w <= Scale
            /\ w = Scale <=> args.t = Half
            /\ result = _patina_interpolate_states(
                            args.state_a, args.state_b, Scale - args.t,
                            "triangular")

\* The triangular waveform on its falling side, between two distinct states
C5_Witness ==
    /\ op = "_patina_interpolate_states"
    /\ args.pattern = "triangular"
    /\ args.t > Half
    /\ args.t < Scale
    /\ args.state_a # args.state_b
    /\ result # args.state_a
    /\ result # args.state_b

\* C6: replaying a configured preset of period P returns exactly P samples;
\* the sample in position s (from 0) has step s and is the interpolation of
\* the preset's two states at phase s/P with the preset's waveform.
C6_PresetReplay ==
    (op = "apply_patina_rhythmic_preset" /\ args.preset_name \in PresetSet) =>
        LET cfg == PATINA_RHYTHMIC_PRESETS[args.preset_name]
            P   == cfg.period
        IN  /\ ~IsError(result)
            /\ Len(result.sequence) = P
            /\ result.total_steps = P
            /\ \A s \in 0..(P - 1) :
                   LET sample == result.sequence[s + 1]
                   IN  /\ sample.step = s
                       /\ sample.phase = RoundDiv(s * Scale, P)
                       /\ sample.state = _patina_interpolate_states(
                              PATINA_CANONICAL_STATES[cfg.state_a],
                              PATINA_CANONICAL_STATES[cfg.state_b],
                              RoundDiv(s * Scale, P), cfg.pattern)

\* The preset of period 30 has been replayed: 30 samples, the last at step 29
C6_Witness ==
    /\ op = "apply_patina_rhythmic_preset"
    /\ args.preset_name = "entropy_wave"
    /\ Len(result.sequence) = 30
    /\ result.sequence[30].step = 29

\* The arguments of the last call replay preset n
CallReplaysPreset(n) ==
    ReplaysPreset(n, args.state_a_id, args.state_b_id,
                  args.oscillation_pattern, args.num_cycles,
                  args.steps_per_cycle, args.phase_offset)

\* C7: the custom oscillation called with a preset's states and waveform,
\* one cycle of `period` steps and offset 0 returns the very sequence of the
\* fixed-preset replay of that preset.
C7_CustomEqualsReplay ==
    op = "generate_patina_rhythmic_sequence" =>
        \A n \in PresetSet :
            CallReplaysPreset(n) =>
                result.sequence = apply_patina_rhythmic_preset(n).sequence

\* C8: for positive num_cycles C and steps_per_cycle S the custom oscillation
\* returns C*S samples; sample k has step k and cycle k div S, each cycle
\* index 0..C-1 labels exactly S samples, and the sample is the
\* interpolation at phase ((k/S) + offset) mod 1 (the fraction
\* (k * Scale + offset * S) / (S * Scale) mod 1, to 4 decimals).
C8_CustomOscillation ==
    (/\ op = "generate_patina_rhythmic_sequence"
     /\ args.state_a_id \in CanonicalSet
     /\ args.state_b_id \in CanonicalSet
     /\ args.num_cycles > 0
     /\ args.steps_per_cycle > 0) =>
        LET C == args.num_cycles
            S == args.steps_per_cycle
        IN  /\ ~IsError(result)
            /\ Len(result.sequence) = C * S
            /\ \A k \in 0..(C * S - 1) :
                   LET sample == result.sequence[k + 1]
                       phase  ==
                           RoundHalfEven(
                               (k * Scale + args.phase_offset * S)
                                   % (S * Scale), S)
                   IN  /\ sample.step = k
                       /\ sample.cycle = k \div S
                       /\ sample.phase = phase
                       /\ sample.state = _patina_interpolate_states(
                              PATINA_CANONICAL_STATES[args.state_a_id],
                              PATINA_CANONICAL_STATES[args.state_b_id],
                              phase, args.oscillation_pattern)
            /\ \A c \in 0..(C - 1) :
                   Cardinality({k \in 1..(C * S) :
                                   result.sequence[k].cycle = c}) = S

\* Two cycles of three steps with an offset of 1.5: six samples, the fourth
\* opening cycle 1 at phase 0.5
C8_Witness ==
    /\ op = "generate_patina_rhythmic_sequence"
    /\ ~IsError(result)
    /\ args.num_cycles = 2
    /\ args.steps_per_cycle = 3
    /\ args.phase_offset = Scale + Half
    /\ Len(result.sequence) = 6
    /\ result.sequence[4].cycle = 1
    /\ result.sequence[4].phase = Half

\* C9: the custom oscillation called with valid state ids and a non-positive
\* num_cycles or steps_per_cycle returns an error result and no sequence.
C9_NonPositiveCountsRejected ==
    (/\ op = "generate_patina_rhythmic_sequence"
     /\ args.state_a_id \in CanonicalSet
     /\ args.state_b_id \in CanonicalSet
     /\ (args.num_cycles <= 0 \/ args.steps_per_cycle <= 0)) =>
        /\ IsError(result)
        /\ "sequence" \notin DOMAIN result

\* An error result that lists the identifiers `ids` under `key` and carries
\* nothing else: no sequence, trajectory, keyframe, distance or prompt
ListsValidIds(r, key, ids) ==
    /\ DOMAIN r = {"error", key}
    /\ r[key] = ids

\* C10: an operation given a canonical state id, a preset name, or (without
\* a coordinate override) an attractor id that is not a key of its catalog
\* returns an error result listing exactly that catalog's keys in catalog
\* order, and nothing else.
C10_UnknownIdListsCatalog ==
    /\ (/\ op \in {"apply_patina_rhythmic_preset",
                   "generate_patina_sequence_prompts"}
        /\ args.preset_name \notin PresetSet) =>
           ListsValidIds(result, "available", PresetIds)
    /\ (/\ op = "generate_patina_rhythmic_sequence"
        /\ (args.state_a_id \notin CanonicalSet
               \/ args.state_b_id \notin CanonicalSet)) =>
           ListsValidIds(result, "available", CanonicalIds)
    /\ (/\ op = "compute_patina_distance"
        /\ (args.patina_id_1 \notin CanonicalSet
               \/ args.patina_id_2 \notin CanonicalSet)) =>
           ListsValidIds(result, "available", CanonicalIds)
    /\ (/\ op = "compute_patina_trajectory"
        /\ (args.start_patina_id \notin CanonicalSet
               \/ args.end_patina_id \notin CanonicalSet)) =>
           ListsValidIds(result, "available", CanonicalIds)
    /\ (/\ op = "extract_patina_visual_vocabulary"
        /\ args.patina_id # None
        /\ args.patina_id \notin CanonicalSet) =>
           ListsValidIds(result, "available", CanonicalIds)
    /\ (/\ op = "generate_patina_attractor_prompt"
        /\ IsNoneDict(args.custom_state)
        /\ args.attractor_id \notin AttractorSet) =>
           ListsValidIds(result, "available_attractors", AttractorIds)

\* A preset replay asked for a name that is a canonical state, not a preset
C10_Witness ==
    /\ op = "apply_patina_rhythmic_preset"
    /\ args.preset_name = "deep_rust"
    /\ IsError(result)
    /\ result.available = PresetIds

\* The operations the server exposes as tools
ToolNames ==
    {"classify_weathering_intent", "map_weathering_parameters",
     "enhance_patina_prompt", "apply_patina_rhythmic_preset",
     "generate_patina_rhythmic_sequence", "compute_patina_distance",
     "compute_patina_trajectory", "extract_patina_visual_vocabulary",
     "generate_patina_attractor_prompt", "generate_patina_sequence_prompts"}

\* The call ended in an exception that nothing caught
IsRaised(r) == "raised" \in DOMAIN r

\* C11: every operation, for every input of its declared argument types
\* (keyframe_count = 0, num_steps = 0 and an unknown material_override
\* included), ends by returning a structured result, success or error; no
\* call ends in an uncaught exception.
C11_NoUncaughtException ==
    op \in ToolNames => ~IsRaised(result)

\* C12: no operation returns a partially failed result; in particular a
\* package returned by enhance_patina_prompt that is not itself an error
\* result never carries an error result as its weathering_specification.
C12_NoPartialFailure ==
    (/\ op = "enhance_patina_prompt"
     /\ ~IsRaised(result)
     /\ ~IsError(result)) =>
        ~IsError(result.weathering_specification)

\* C13: a caller-supplied coordinate (state of
\* extract_patina_visual_vocabulary, custom_state of
\* generate_patina_attractor_prompt) whose axis set is not exactly the five
\* axis names is rejected with a validation error, whether it lacks an axis
\* or carries an extra one.
C13_AxisSetValidated ==
    /\ (/\ op = "extract_patina_visual_vocabulary"
        /\ args.patina_id = None
        /\ ~IsNoneDict(args.state)
        /\ DOMAIN args.state # ParamSet) =>
           IsError(result)
    /\ (/\ op = "generate_patina_attractor_prompt"
        /\ ~IsNoneDict(args.custom_state)
        /\ DOMAIN args.custom_state # ParamSet) =>
           IsError(result)

\* The 0-based index select derives for a category: round(v * (N - 1)),
\* brought into 0..N-1
ClampedIndex(category, state) ==
    LET n   == Len(PATINA_VISUAL_VOCABULARY[category])
        raw == RoundIndex(CategoryValue(category, state), n)
    IN  IF raw < 0 THEN 0 ELSE IF raw > n - 1 THEN n - 1 ELSE raw

\* The phrases of a table at the 0-based positions idx-1, idx, idx+1 that
\* exist, in table order
Around(terms, idx) ==
    LET lo == IF idx = 0 THEN 0 ELSE idx - 1
        hi == IF idx = Len(terms) - 1 THEN idx ELSE idx + 1
    IN  [k \in 1..(hi - lo + 1) |-> terms[lo + k]]

\* C14: for every coordinate and every vocabulary category with N phrases,
\* select returns the phrases at idx-1, idx and idx+1 that exist, in table
\* order and without duplicates, where idx = round(v * (N-1)) clamped to
\* [0, N-1]: three phrases when idx is interior, fewer when idx is 0 or N-1.
C14_SelectNeighbours ==
    (/\ op = "extract_patina_visual_vocabulary"
     /\ ~IsError(result)) =>
        \A c \in CategorySet :
            LET terms == PATINA_VISUAL_VOCABULARY[c]
                idx   == ClampedIndex(c, result.input_state)
                sel   == result.vocabulary_by_category[c]
            IN  /\ sel = Around(terms, idx)
                /\ \A i, j \in 1..Len(sel) : i # j => sel[i] # sel[j]
                /\ (0 < idx /\ idx < Len(terms) - 1) => Len(sel) = 3
                /\ (idx = 0 \/ idx = Len(terms) - 1) => Len(sel) < 3

\* One coordinate whose categories fall on the first phrase, on the last
\* phrase and in the interior of their tables
C14_Witness ==
    /\ op = "extract_patina_visual_vocabulary"
    /\ ~IsError(result)
    /\ result.input_state = CornerState
    /\ \E c1, c2, c3 \in CategorySet :
           LET v == result.vocabulary_by_category
               n == Len(PATINA_VISUAL_VOCABULARY[c1])
           IN  /\ ClampedIndex(c1, result.input_state) = 0
               /\ v[c1] = SubSeq(PATINA_VISUAL_VOCABULARY[c1], 1, 2)
               /\ ClampedIndex(c2, result.input_state) = n - 1
               /\ v[c2] = SubSeq(PATINA_VISUAL_VOCABULARY[c2], n - 1, n)
               /\ ClampedIndex(c3, result.input_state) \in 1..(n - 2)
               /\ Len(v[c3]) = 3

\* Some axis of the coordinate lies below 0 or above 1
OutOfRange(state) == \E p \in ParamSet : state[p] < 0 \/ state[p] > Scale

\* C15: for any coordinate that defines all five axes, axis values below 0
\* or above 1 included, select addresses every table of N phrases inside
\* [0, N-1]: a derived index below 0 selects around the first phrase, one
\* above N-1 around the last, and the call returns a result.
C15_IndexClamped ==
    (/\ op = "extract_patina_visual_vocabulary"
     /\ args.patina_id = None
     /\ ParamSet \subseteq DOMAIN args.state) =>
        /\ ~IsError(result)
        /\ ~IsRaised(result)
        /\ \A c \in CategorySet :
               LET terms == PATINA_VISUAL_VOCABULARY[c]
                   n     == Len(terms)
                   raw   == RoundIndex(CategoryValue(c, args.state), n)
                   sel   == result.vocabulary_by_category[c]
               IN  /\ sel # <<>>
                   /\ \A i \in 1..Len(sel) : sel[i] \in SeqToSet(terms)
                   /\ raw <= 0 => sel = SubSeq(terms, 1, 2)
                   /\ raw >= n - 1 => sel = SubSeq(terms, n - 1, n)

\* A coordinate outside the unit cube whose derived index lies below 0 for
\* one category and above N-1 for another, and the call succeeded
C15_Witness ==
    /\ op = "extract_patina_visual_vocabulary"
    /\ args.patina_id = None
    /\ ParamSet \subseteq DOMAIN args.state
    /\ OutOfRange(args.state)
    /\ ~IsError(result)
    /\ \E c1, c2 \in CategorySet :
           LET n == Len(PATINA_VISUAL_VOCABULARY[c1])
           IN  /\ RoundIndex(CategoryValue(c1, args.state), n) < 0
               /\ RoundIndex(CategoryValue(c2, args.state), n) > n - 1
               /\ Len(result.vocabulary_by_category[c1]) = 2
               /\ Len(result.vocabulary_by_category[c2]) = 2

\* The items of a list that no earlier position holds, from position i on
RECURSIVE FirstOccurrences(_, _)
FirstOccurrences(list, i) ==
    IF i > Len(list) THEN <<>>
    ELSE IF \E j \in 1..(i - 1) : list[j] = list[i]
         THEN FirstOccurrences(list, i + 1)
         ELSE <<list[i]>> \o FirstOccurrences(list, i + 1)

\* The nearest visual type's keywords followed by every category's selected
\* phrases, in category order
KeywordsThenPhrases(vtype, state) ==
    LET sel == _patina_select_vocabulary(state)
    IN  PATINA_VISUAL_TYPES[vtype].keywords
            \o sel["surface_texture"] \o sel["color_transformation"]
            \o sel["structural_integrity"] \o sel["biological_colonization"]
            \o sel["light_interaction"] \o sel["temporal_evidence"]

\* The style modifier and a comma in front of a prompt, nothing when empty
StylePrefix(style_modifier) ==
    IF style_modifier = "" THEN "" ELSE style_modifier \o ", "

\* C16: in composite mode the prompt is the style prefix followed by one
\* list made of the nearest visual type's keywords and then every category's
\* selected phrases in category order, each phrase once, at the position of
\* its first occurrence.
C16_CompositePrompt ==
    (/\ op = "generate_patina_attractor_prompt"
     /\ ~IsRaised(result)
     /\ ~IsError(result)
     /\ result.mode = "composite") =>
        LET list == KeywordsThenPhrases(result.nearest_visual_type, result.state)
        IN  result.prompt = StylePrefix(args.style_modifier)
                                \o Join(FirstOccurrences(list, 1), ", ")

\* A composite prompt for a catalogued attractor with a style modifier
C16_Witness ==
    /\ op = "generate_patina_attractor_prompt"
    /\ args.attractor_id = "period_30"
    /\ IsNoneDict(args.custom_state)
    /\ args.mode = "composite"
    /\ args.style_modifier = "oil painting"
    /\ ~IsError(result)
    /\ result.state = PATINA_ATTRACTOR_PRESETS["period_30"].state
    /\ Len(KeywordsThenPhrases(result.nearest_visual_type, result.state)) > 17

\* C17: in split_view mode the result has exactly one panel per vocabulary
\* category, and each panel's terms are exactly the phrases select returns
\* for that category for the same coordinate; no phrase is removed because
\* another category's panel holds it.
C17_SplitViewPanels ==
    (/\ op = "generate_patina_attractor_prompt"
     /\ ~IsRaised(result)
     /\ ~IsError(result)
     /\ result.mode = "split_view") =>
        /\ DOMAIN result.panels = CategorySet
        /\ \A c \in CategorySet :
               LET selected == Around(PATINA_VISUAL_VOCABULARY[c],
                                      ClampedIndex(c, result.state))
               IN  /\ result.panels[c].terms = selected
                   /\ result.panels[c].prompt =
                          StylePrefix(args.style_modifier) \o Join(selected, ", ")

\* Six panels for a caller-supplied coordinate, one at the end of its table
\* and one in the interior
C17_Witness ==
    /\ op = "generate_patina_attractor_prompt"
    /\ args.mode = "split_view"
    /\ args.custom_state = CornerState
    /\ ~IsError(result)
    /\ Cardinality(DOMAIN result.panels) = 6
    /\ Len(result.panels["surface_texture"].terms) = 2
    /\ Len(result.panels["color_transformation"].terms) = 3

\* The target period of a sequence-mode call: the number in the identifier
\* of a catalogued attractor that has a basin size, 30 otherwise
TargetPeriod(attractor_id, custom_state) ==
    IF /\ IsNoneDict(custom_state)
       /\ attractor_id \in AttractorSet
       /\ PATINA_ATTRACTOR_PRESETS[attractor_id].basin_size # 0
       /\ ParsePeriod(attractor_id) # 0
    THEN ParsePeriod(attractor_id)
    ELSE 30

\* The position of a preset in the preset catalog
PresetIndex(name) == CHOOSE i \in 1..Len(PresetIds) : PresetIds[i] = name

PeriodGap(name, target) == Abs(PATINA_RHYTHMIC_PRESETS[name].period - target)

\* C18: in sequence mode the preset used is one whose period has the
\* smallest absolute difference from the target period among all presets,
\* and among equally close presets the first of the catalog: for target 19,
\* equally close to 18 and 20, restoration_pendulum (20), which precedes
\* erosion_pulse (18).
C18_NearestPresetFirstOnTie ==
    (/\ op = "generate_patina_attractor_prompt"
     /\ ~IsRaised(result)
     /\ ~IsError(result)
     /\ result.mode = "sequence") =>
        LET target == TargetPeriod(args.attractor_id, args.custom_state)
            used   == result.preset_used
        IN  /\ used \in PresetSet
            /\ result.preset_period = PATINA_RHYTHMIC_PRESETS[used].period
            /\ \A q \in PresetSet :
                   /\ PeriodGap(used, target) <= PeriodGap(q, target)
                   /\ PresetIndex(q) < PresetIndex(used) =>
                          PeriodGap(used, target) < PeriodGap(q, target)
            /\ target = 19 => used = "restoration_pendulum"

\* Sequence mode for the attractor of period 19, one away from both 18 and 20
C18_Witness ==
    /\ op = "generate_patina_attractor_prompt"
    /\ args.attractor_id = "period_19"
    /\ IsNoneDict(args.custom_state)
    /\ args.mode = "sequence"
    /\ args.keyframe_count > 0
    /\ ~IsError(result)
    /\ result.preset_used = "restoration_pendulum"
    /\ result.preset_period = 20
    /\ PeriodGap("erosion_pulse", 19) = PeriodGap("restoration_pendulum", 19)

\* The keyframes of a result are count samples of a preset of the given
\* period: keyframe i at step (i * max(1, period div count)) mod period and
\* at the phase step / period, reported to 4 decimals
EvenlySpaced(keyframes, count, preset_name) ==
    LET cfg       == PATINA_RHYTHMIC_PRESETS[preset_name]
        period    == cfg.period
        div       == period \div count
        step_size == IF div < 1 THEN 1 ELSE div
    IN  /\ Len(keyframes) = count
        /\ \A i \in 0..(count - 1) :
               LET kf   == keyframes[i + 1]
                   step == (i * step_size) % period
               IN  /\ kf.keyframe = i
                   /\ kf.step = step
                   /\ 2 * Abs(kf.phase * period - step * Scale) <= period
                   /\ kf.state = _patina_interpolate_states(
                                     PATINA_CANONICAL_STATES[cfg.state_a],
                                     PATINA_CANONICAL_STATES[cfg.state_b],
                                     kf.phase, cfg.pattern)

\* C19: for every positive keyframe_count, keyframe generation (sequence
\* mode of generate_patina_attractor_prompt and
\* generate_patina_sequence_prompts) returns exactly keyframe_count
\* keyframes, keyframe i sampled at step (i * max(1, period div
\* keyframe_count)) mod period and phase step / period of the chosen preset.
C19_KeyframesEvenlySpaced ==
    /\ (/\ op = "generate_patina_sequence_prompts"
        /\ args.keyframe_count > 0
        /\ ~IsError(result)) =>
           /\ ~IsRaised(result)
           /\ EvenlySpaced(result.keyframes, args.keyframe_count, result.preset)
    /\ (/\ op = "generate_patina_attractor_prompt"
        /\ args.mode = "sequence"
        /\ args.keyframe_count > 0
        /\ ~IsError(result)) =>
           /\ ~IsRaised(result)
           /\ EvenlySpaced(result.keyframes, args.keyframe_count,
                           result.preset_used)

\* More keyframes than the preset has steps: the step size is 1 and the
\* last keyframe wraps around to step 0
C19_Witness ==
    /\ op = "generate_patina_sequence_prompts"
    /\ args.preset_name = "aging_cycle"
    /\ args.keyframe_count = 17
    /\ ~IsError(result)
    /\ Len(result.keyframes) = 17
    /\ result.keyframes[17].step = 0
    /\ result.keyframes[9].step = 8
    /\ result.keyframes[9].phase = Half

ValidModes == <<"composite", "split_view", "sequence">>

\* An error result that enumerates exactly the three modes and carries no
\* prompt, panel or keyframe
ListsModes(r) ==
    /\ DOMAIN r = {"error", "available"}
    /\ r.available = ValidModes

\* C20 as stated: generate_patina_attractor_prompt called with a mode that
\* is none of composite, split_view, sequence returns an error result that
\* enumerates exactly those three modes and contains no prompt, panel or
\* keyframe.
C20_UnknownModeAsStated ==
    (/\ op = "generate_patina_attractor_prompt"
     /\ args.mode \notin SeqToSet(ValidModes)) =>
        ListsModes(result)

\* The call names a coordinate: a custom_state with all five axes, or
\* without custom_state a catalogued attractor
CoordinateResolves(attractor_id, custom_state) ==
    IF IsNoneDict(custom_state) THEN attractor_id \in AttractorSet
    ELSE ParamSet \subseteq DOMAIN custom_state

\* C20: generate_patina_attractor_prompt called with a coordinate that
\* resolves and a mode that is none of composite, split_view, sequence
\* returns an error result that enumerates exactly those three modes and
\* contains no prompt, panel or keyframe; when the coordinate does not
\* resolve, the result is the coordinate's error result, which contains no
\* prompt, panel or keyframe either.
C20_UnknownModeListsModes ==
    (/\ op = "generate_patina_attractor_prompt"
     /\ args.mode \notin SeqToSet(ValidModes)) =>
        /\ IsError(result)
        /\ DOMAIN result \cap {"prompt", "panels", "keyframes", "mode"} = {}
        /\ CoordinateResolves(args.attractor_id, args.custom_state) =>
               /\ ListsModes(result)
               /\ result.error = "Unknown mode: " \o args.mode
        /\ ~CoordinateResolves(args.attractor_id, args.custom_state) =>
               "available" \notin DOMAIN result

\* An unknown mode asked of a catalogued attractor
C20_Witness ==
    /\ op = "generate_patina_attractor_prompt"
    /\ args.attractor_id = "period_30"
    /\ IsNoneDict(args.custom_state)
    /\ args.mode = "panorama"
    /\ result.error = "Unknown mode: panorama"
    /\ result.available = ValidModes

\* C21: after any sequence of calls to any operations with any arguments,
\* calls that return errors and calls that take a catalog entry by reference
\* as their working state included, the canonical-state catalog, the
\* visual-type catalog, the presets, the attractor entries and the
\* vocabulary tables all equal their initial values.
C21_CatalogsNeverChange ==
    /\ catalogs.PATINA_CANONICAL_STATES = LoadedCanonicalStates
    /\ catalogs.PATINA_VISUAL_TYPES = LoadedVisualTypes
    /\ catalogs.PATINA_RHYTHMIC_PRESETS = LoadedRhythmicPresets
    /\ catalogs.PATINA_ATTRACTOR_PRESETS = LoadedAttractorPresets
    /\ catalogs.PATINA_VISUAL_VOCABULARY = LoadedVisualVocabulary

\* A composite prompt was built for a catalogued attractor, whose state the
\* call used by reference and whose visual type's keyword list it extended
\* with the vocabulary, and the keyword list in the catalog is as loaded
C21_Witness ==
    /\ op = "generate_patina_attractor_prompt"
    /\ IsNoneDict(args.custom_state)
    /\ args.attractor_id \in AttractorSet
    /\ args.mode = "composite"
    /\ ~IsError(result)
    /\ result.state = LoadedAttractorPresets[args.attractor_id].state
    /\ catalogs.PATINA_VISUAL_TYPES[result.nearest_visual_type].keywords
           = LoadedVisualTypes[result.nearest_visual_type].keywords
    /\ Len(LoadedVisualTypes[result.nearest_visual_type].keywords) = 5

\* The remembered call is the call that has just returned, made again
SameCallAgain ==
    /\ earlier.op # ""
    /\ earlier.calls > 0
    /\ op = earlier.op
    /\ args = earlier.args

\* C22: the result of every operation depends only on its explicit
\* arguments: the same call made twice, with any other calls made in
\* between, returns identical output; select called twice on the same
\* coordinate returns the same categories with the same phrases in the
\* same order.
C22_SameCallSameResult == SameCallAgain => result = earlier.result

\* select was called on a coordinate, another call was made, select was
\* called on the same coordinate again and returned phrases
C22_Witness ==
    /\ SameCallAgain
    /\ earlier.calls = 2
    /\ op = "_patina_select_vocabulary"
    /\ result = earlier.result
    /\ \E c \in DOMAIN result : Len(result[c]) > 0

\* The keys under which a sample reports its coordinate, its visual type
\* and its position
SampleKeys ==
    {"step", "cycle", "phase", "state", "nearest_visual_type",
     "visual_distance"}

\* The sample names a canonical state, under some further key, and has a
\* further key for its distance
CarriesCanonical(sample) ==
    \E k \in DOMAIN sample \ SampleKeys :
        /\ sample[k] \in CanonicalSet
        /\ DOMAIN sample \ (SampleKeys \cup {k}) # {}

\* C23: every sample returned by the fixed-preset replay and by the custom
\* oscillation carries the interpolated coordinate, the nearest visual type
\* with its distance, the nearest canonical state with its distance, and
\* its position as step index, cycle index and phase.
C23_SampleFields ==
    (/\ op \in {"apply_patina_rhythmic_preset",
                "generate_patina_rhythmic_sequence"}
     /\ ~IsError(result))
        => \A i \in 1..Len(result.sequence) :
               /\ SampleKeys \subseteq DOMAIN result.sequence[i]
               /\ CarriesCanonical(result.sequence[i])

\* The samples or keyframes of the result, whichever list it has
Samples(r) ==
    IF "sequence" \in DOMAIN r THEN r.sequence
    ELSE IF "keyframes" \in DOMAIN r THEN r.keyframes
    ELSE <<>>

\* C24: the phase reported for every sample of a preset replay, of a
\* custom oscillation (for any phase offset, including negative offsets
\* and offsets of 1 or more) and of a keyframe list is at least 0 and
\* strictly less than 1.
C24_PhaseInUnitInterval ==
    (/\ op \in {"apply_patina_rhythmic_preset",
                "generate_patina_rhythmic_sequence",
                "generate_patina_attractor_prompt",
                "generate_patina_sequence_prompts"}
     /\ ~IsRaised(result))
        => \A i \in 1..Len(Samples(result)) :
               /\ 0 <= Samples(result)[i].phase
               /\ Samples(result)[i].phase < Scale

\* C25: in the custom oscillation, for each of the waveforms sinusoidal,
\* triangular and square, a phase offset of 0.0 makes the first sample's
\* state equal to state A and a phase offset of 0.5 makes the first
\* sample's state equal to state B.
C25_OffsetSelectsEndpoint ==
    (/\ op = "generate_patina_rhythmic_sequence"
     /\ ~IsError(result)
     /\ args.oscillation_pattern \in NamedPatterns
     /\ Len(result.sequence) > 0)
        => /\ args.phase_offset = 0 =>
                  result.sequence[1].state
                      = PATINA_CANONICAL_STATES[args.state_a_id]
           /\ args.phase_offset = Half =>
                  result.sequence[1].state
                      = PATINA_CANONICAL_STATES[args.state_b_id]

\* a + phase * (b - a) on every axis
LinearBlend(a, b, phase) ==
    [p \in ParamSet |-> a[p] + RoundDiv(phase * (b[p] - a[p]), Scale)]

\* C26: interpolation with a waveform tag other than sinusoidal, triangular
\* and square is not an error: it uses the phase itself as blend weight (a
\* plain linear blend a + phase*(b-a)), and the custom oscillation called
\* with such a tag returns a success result with a full sequence.
C26_UnknownWaveformIsLinear ==
    /\ (/\ op = "_patina_interpolate_states"
        /\ args.pattern \notin NamedPatterns)
           => result = LinearBlend(args.state_a, args.state_b, args.t)
    /\ (/\ op = "generate_patina_rhythmic_sequence"
        /\ args.oscillation_pattern \notin NamedPatterns
        /\ args.state_a_id \in CanonicalSet
        /\ args.state_b_id \in CanonicalSet
        /\ args.num_cycles > 0
        /\ args.steps_per_cycle > 0)
           => /\ ~IsError(result)
              /\ ~IsRaised(result)
              /\ Len(result.sequence)
                     = args.num_cycles * args.steps_per_cycle
              /\ \A i \in 1..Len(result.sequence) :
                     result.sequence[i].state
                         = LinearBlend(
                               PATINA_CANONICAL_STATES[args.state_a_id],
                               PATINA_CANONICAL_STATES[args.state_b_id],
                               result.sequence[i].phase)

\* Two cycles of three steps between two different canonical states with
\* the tag "linear": six samples, the second a third of the way from A to B
C26_Witness ==
    /\ op = "generate_patina_rhythmic_sequence"
    /\ args.oscillation_pattern = "linear"
    /\ args.state_a_id = "fresh_pristine"
    /\ args.state_b_id = "deep_rust"
    /\ args.num_cycles = 2
    /\ args.steps_per_cycle = 3
    /\ args.phase_offset = 0
    /\ Len(result.sequence) = 6
    /\ result.sequence[2].phase = 3333
    /\ result.sequence[2].state.exposure_duration = 1833

\* The value of a decimal digit, -1 for any other character
DigitValue(c) ==
    IF c = "0" THEN 0 ELSE IF c = "1" THEN 1 ELSE IF c = "2" THEN 2
    ELSE IF c = "3" THEN 3 ELSE IF c = "4" THEN 4 ELSE IF c = "5" THEN 5
    ELSE IF c = "6" THEN 6 ELSE IF c = "7" THEN 7 ELSE IF c = "8" THEN 8
    ELSE IF c = "9" THEN 9 ELSE -1

\* The number written in decimal from position i of a string on
RECURSIVE DecimalValue(_, _, _)
DecimalValue(str, i, acc) ==
    IF i > Len(str) THEN acc
    ELSE DecimalValue(str, i + 1,
                      10 * acc + DigitValue(SubSeq(str, i, i)))

\* The integer encoded after "period_" in an identifier
EncodedPeriod(attractor_id) ==
    DecimalValue(attractor_id, Len("period_") + 1, 0)

\* The state of the call was resolved from the attractor catalog and the
\* entry has a basin size
ResolvedWithBasin ==
    /\ IsNoneDict(args.custom_state)
    /\ args.attractor_id \in AttractorSet
    /\ LoadedAttractorPresets[args.attractor_id].basin_size # 0

\* C27: in sequence mode the target period is the integer encoded after
\* "period_" in the attractor identifier only when the state was resolved
\* from the attractor catalog and that entry has a basin size; in every
\* other case (a custom_state was supplied, even together with a valid
\* attractor id such as period_19, or the attractor is a curated entry
\* without basin size) the target period is 30.  The target shows in the
\* preset used, the one of the nearest period.
C27_TargetPeriodFromCatalogOnly ==
    (/\ op = "generate_patina_attractor_prompt"
     /\ ~IsRaised(result)
     /\ ~IsError(result)
     /\ result.mode = "sequence") =>
        LET target == IF ResolvedWithBasin
                      THEN EncodedPeriod(args.attractor_id)
                      ELSE 30
        IN  /\ \A q \in PresetSet :
                   Abs(result.preset_period - target) <= PeriodGap(q, target)
            /\ ~ResolvedWithBasin =>
                   /\ result.preset_period = 30
                   /\ result.preset_used = "entropy_wave"

\* Sequence mode for a caller-supplied coordinate passed together with the
\* identifier period_19: the preset of period 30 is used, not the one of
\* period 20 that the identifier alone selects
C27_Witness ==
    /\ op = "generate_patina_attractor_prompt"
    /\ args.mode = "sequence"
    /\ args.attractor_id = "period_19"
    /\ args.custom_state = CornerState
    /\ args.keyframe_count > 0
    /\ ~IsError(result)
    /\ EncodedPeriod(args.attractor_id) = 19
    /\ result.preset_used = "entropy_wave"
    /\ result.preset_period = 30

\* The period of the preset a keyframe result was sampled from
KeyframePeriod(r) ==
    IF "preset_period" \in DOMAIN r THEN r.preset_period ELSE r.period

\* A keyframe result: either generator returned a keyframe list
HasKeyframes ==
    /\ op \in {"generate_patina_attractor_prompt",
               "generate_patina_sequence_prompts"}
    /\ "keyframes" \in DOMAIN result

\* C28: for every preset and every keyframe_count with
\* 1 <= keyframe_count <= period, the keyframe steps are strictly
\* increasing, pairwise distinct and all below the period (no wrap-around),
\* with keyframe 0 at step 0; only when keyframe_count exceeds the period
\* do steps wrap and repeat.
C28_StepsIncreaseUpToPeriod ==
    HasKeyframes =>
        LET kf     == result.keyframes
            count  == args.keyframe_count
            period == KeyframePeriod(result)
        IN  /\ (1 <= count /\ count <= period) =>
                   /\ Len(kf) = count
                   /\ kf[1].step = 0
                   /\ \A i \in 1..(count - 1) : kf[i].step < kf[i + 1].step
                   /\ \A i, j \in 1..count :
                          i # j => kf[i].step # kf[j].step
                   /\ \A i \in 1..count : kf[i].step < period
            /\ count > period =>
                   /\ kf[period + 1].step = 0
                   /\ kf[period + 1].step < kf[period].step
                   /\ \E i, j \in 1..count :
                          i # j /\ kf[i].step = kf[j].step

\* As many keyframes as the preset has steps (16): every step of the cycle
\* once, in order
C28_Witness ==
    /\ op = "generate_patina_sequence_prompts"
    /\ HasKeyframes
    /\ args.keyframe_count = result.period
    /\ result.period = 16
    /\ Len(result.keyframes) = 16
    /\ \A i \in 1..16 : result.keyframes[i].step = i - 1

\* C29: the two keyframe generators agree: for every preset p, positive
\* keyframe_count and style modifier, the keyframe list of
\* generate_patina_sequence_prompts(p, ...) equals, keyframe by keyframe
\* (step, phase, state, nearest visual type, distance and prompt), the
\* keyframe list of generate_patina_attractor_prompt in sequence mode
\* whenever that call selects preset p.
C29_KeyframeGeneratorsAgree ==
    (/\ op = "generate_patina_attractor_prompt"
     /\ HasKeyframes
     /\ args.keyframe_count > 0) =>
        LET other == generate_patina_sequence_prompts(
                         result.preset_used, args.keyframe_count,
                         args.style_modifier)
        IN  /\ ~IsError(other)
            /\ other.period = result.preset_period
            /\ Len(other.keyframes) = Len(result.keyframes)
            /\ \A i \in 1..Len(result.keyframes) :
                   LET x == result.keyframes[i]
                       y == other.keyframes[i]
                   IN  /\ x.step = y.step
                       /\ x.phase = y.phase
                       /\ x.state = y.state
                       /\ x.nearest_visual_type = y.nearest_visual_type
                       /\ x.visual_distance = y.visual_distance
                       /\ x.prompt = y.prompt
                       /\ x = y

\* Sequence mode with a style modifier selected restoration_pendulum, and
\* its four keyframes carry the prompts that generate_patina_sequence_prompts
\* builds for that preset, style prefix included
C29_Witness ==
    /\ op = "generate_patina_attractor_prompt"
    /\ HasKeyframes
    /\ args.attractor_id = "period_19"
    /\ args.style_modifier = "oil painting"
    /\ args.keyframe_count = 4
    /\ result.preset_used = "restoration_pendulum"
    /\ Len(result.keyframes) = 4
    /\ result.keyframes[3].step = 10
    /\ \A i \in 1..4 :
           /\ SubSeq(result.keyframes[i].prompt, 1, 14) = "oil painting, "
           /\ result.keyframes[i].prompt
                  = generate_patina_sequence_prompts(
                        "restoration_pendulum", 4,
                        "oil painting").keyframes[i].prompt

\* Every axis of the coordinate is within the bounds [0, 1]
InUnitCube(state) ==
    \A p \in ParamSet : 0 <= state[p] /\ state[p] <= Scale

\* C30: when both endpoints have every axis in [0,1] and the phase is in
\* [0,1], the blend weight of each waveform (and of the fallback) is in
\* [0,1], so every axis of the interpolated coordinate lies between the two
\* endpoint values; consequently every state in any preset replay, custom
\* oscillation between canonical states, or keyframe list has all five
\* axes within the bounds [0,1].
C30_InterpolationWithinBounds ==
    /\ (/\ op = "_patina_interpolate_states"
        /\ InUnitCube(args.state_a)
        /\ InUnitCube(args.state_b)
        /\ 0 <= args.t
        /\ args.t <= Scale)
           => /\ 0 <= Alpha(args.t, args.pattern)
              /\ Alpha(args.t, args.pattern) <= Scale
              /\ \A p \in ParamSet :
                     /\ Min(args.state_a[p], args.state_b[p]) <= result[p]
                     /\ result[p] <= Max(args.state_a[p], args.state_b[p])
    /\ op \in {"apply_patina_rhythmic_preset",
               "generate_patina_rhythmic_sequence",
               "generate_patina_attractor_prompt",
               "generate_patina_sequence_prompts"}
           => \A i \in 1..Len(Samples(result)) :
                  InUnitCube(Samples(result)[i].state)

\* A sinusoidal blend at phase 1/8 between two canonical states that
\* differ on every axis: the weight and every axis are strictly inside
C30_Witness ==
    /\ op = "_patina_interpolate_states"
    /\ args.pattern = "sinusoidal"
    /\ args.t = Scale \div 8
    /\ args.state_a = LoadedCanonicalStates["gentle_patina"]
    /\ args.state_b = LoadedCanonicalStates["deep_rust"]
    /\ 0 < Alpha(args.t, args.pattern)
    /\ Alpha(args.t, args.pattern) < Half
    /\ \A p \in ParamSet \ {"intervention_state"} :
           /\ Min(args.state_a[p], args.state_b[p]) < result[p]
           /\ result[p] < Max(args.state_a[p], args.state_b[p])

====
